---- MODULE Spec2Model ----
(***************************************************************************)
(* A model of botoform's EnvironmentBuilder (src/botoform/builders.py).    *)
(*                                                                         *)
(* Spec      : apply_all, the phase pipeline of _apply_all and its failure *)
(*             handler, run several times against one provider account.    *)
(*                                                                         *)
(* SpecEnsure: the phases that ensure a named resource (instance profiles, *)
(*             route tables, security groups, key pairs, autoscaling       *)
(*             groups, load balancers), each invoked repeatedly.           *)
(* SpecPlace : instance_role, the placement of one fixed role over its     *)
(*             subnets, with the retried _create_instances batches.        *)
(* SpecBarrier, SpecBarrierFair, SpecBarrierDelivering : the instance     *)
(*             roles, the two decorated waits and the barrier before       *)
(*             finish_instance_roles, without fairness, with a builder     *)
(*             that keeps running, and with a provider that delivers.      *)
(* SpecTags  : the tags phase over the taggable resources.                 *)
(* SpecSubnets : the subnets phase, the allocator included.                *)
(* SpecScenario : one whole build of a small configuration, instance by    *)
(*             instance.                                                   *)
(* SpecBalancers : the load_balancers phase, call by call.                 *)
(* SpecRules : security_groups and security_group_rules, call by call.     *)
(* SpecRoutes : route_table_rules for a route that targets a role.         *)
(* SpecFinish : finish_instance_roles, call by call, over fixed and        *)
(*             autoscaled instances.                                       *)
(*                                                                         *)
(* The provider (boto) and EnrichedVPC are outside the repository's source *)
(* files; what the builder needs of them is modelled from the written      *)
(* specification and marked so where it is defined.                        *)
(***************************************************************************)
EXTENDS Integers, Sequences, FiniteSets, TLC

(***************************************************************************)
(* Bounds of the model.                                                    *)
(***************************************************************************)
\* apply_all invocations against the same environment name
MaxRuns == 2
\* largest `count` of an instance role
MaxCount == 10
\* instances of the role that exist before instance_role is first called
MaxExisting == 2
\* instances of other roles that exist in the environment's subnets
MaxOther == 1
\* retries of one _create_instances batch
MaxRetries == 1
\* instance_role invocations for the role
MaxCalls == 2
\* invocations of one ensure phase with the same configuration
MaxInvocations == 2

\* largest `count` of a role the barrier waits for
MaxDesired == 2
\* attempts of a decorated wait the state tells apart
MaxAttempts == 4

\* keys of the environment-wide tag mapping
MaxTags == 2

\* subnets of the configuration
MaxSubnets == 3

\* instances of the role a route targets
MaxTargets == 2

\* instances finish_instance_roles works on
MaxRunning == 2

(***************************************************************************)
(* State.                                                                  *)
(***************************************************************************)
VARIABLES
    \* ---- the builder object and one apply_all invocation ----
    cfg,        \* self.config: which optional keys the declarative spec holds
    evpc,       \* self.evpc: NoEvpc while the attribute is unbound, else the
                \*   id of the VPC the EnrichedVPC handle is connected to
    pc,         \* position of apply_all: "idle", a step of _apply_all, "handler"
    run,        \* number of apply_all invocations started so far
    started,    \* the phases started by the current invocation, in order
    err,        \* the exception in flight: the step that raised, or "none"
    outcome,    \* how the last invocation ended: "none", "returned", "raised"
    delivered,  \* the exception apply_all handed to its caller, or "none"
    terminated, \* whether the handler's self.evpc.terminate() was invoked
    created,    \* resources created by the current invocation
    dupCalls,   \* steps that issued a creation call for a name that resolved
    absorbed,   \* the exception the retry wrapper of the current phase caught
                \*   last and answered by calling again, or "none"
    lockFailed, \* whether lock_instances raised in finish_instance_roles
    \* ---- the provider account ----
    resources,  \* existing resources: <<vpc id, kind>>, kind a creating step
    named,      \* ids of VPCs carrying the tag Name = vpc_name
    \* ---- instance_role: one role, its configuration and the instances ----
    role,       \* role_data: [count, autoscaling, subnets]
    roleIn,     \* per subnet, the instances tagged role = role_name
    otherIn,    \* per subnet, the instances of other roles
    newIn,      \* per subnet, the instances launched and not yet role-tagged
    ppc,        \* position of instance_role: "idle", "loop", "create", "tag"
    calls,      \* instance_role invocations so far
    result,     \* how the last invocation returned
    pre,        \* the instances as the current invocation found them
    subs,       \* `subnets`: the eligible subnets in the order of the loop
    idx,        \* the position of the for loop in subs
    needed_remainder, \* the local of that name
    token,      \* kwargs['ClientToken']
    attempts,   \* failed attempts of the batch being created
    nextToken,  \* the next value uuid4() returns
    launched,   \* the client tokens the provider has launched a batch for
    batches,    \* the batches requested: [call, subnet, count, token,
                \*   sent (tokens the attempts carried), got (instances the
                \*   provider launched for the attempts), acted (attempts
                \*   the provider acted on), returned]
    \* ---- the "ensure" phases and the catalog they consult ----
    ensCfg,     \* the configuration sections the ensure phases read
    catalog,    \* per kind of resource, the names that resolve
    epos,       \* how far down the pipeline the ensure phases have run
    callsBy,     \* per phase, the number of creation calls of each invocation
    \* ---- the instance roles, the barrier and the two waits ----
    instance_role_cfg, \* config['instance_roles']: per role [count,
                \*   autoscaling, resolves (some configured subnet name
                \*   resolves), instance_profile_name (one is configured)]
    roles,      \* self.evpc.roles: per role, the instances carrying its tag
    pending,    \* per role, the instances requested and not yet in `roles`
    profileVisible, \* whether get_instance_profile finds the profile
    bpc,        \* the phase _apply_all is in, "returned" after the last one
    skipped,    \* roles instance_role left with 'no subnets found'
    seen,       \* the counts the last attempt of the barrier read
    attempt_number, \* the attempt of the decorated wait being made, up to
                \*   MaxAttempts (later attempts are like that one)
    byEngine,   \* per role, the instances instance_role asked the provider for
    groups,     \* the roles autoscaling_instance_role created a group for
    sleep,       \* the milliseconds the wrapper sleeps before it calls the
                \*   wait again, 0 while an attempt runs
    \* ---- the tags phase ----
    tag_cfg,    \* config['tags']: per key a value, or Absent
    resourceTags, \* per taggable resource, its tags
    safe_tags,  \* the local of that name
    todo,       \* the resources the loop of the phase has still to visit
    tpc,        \* position of the phase: "idle", "loop", "done", "raised"
    applied,     \* per resource, the keys update_tags was given for it
    \* ---- the subnets phase ----
    subnet_cfg, \* config['subnets']: per subnet name [size,
                \*   availability_zone (a letter, or "none")]
    cidr_block, \* self.evpc.cidr_block, <<a, b, c, d, prefix>> for a.b.c.d/prefix
    cidrsBySize, \* the local `subnets`: per size, the blocks not yet taken
    remaining,  \* the subnet names the loop of the phase has still to visit
    createdSubnets, \* the create_subnet calls that took effect: [name,
                \*   CidrBlock, AvailabilityZone]
    spc,        \* position of the phase: "idle", "loop", "done", "raised"
    handedOut,  \* the order in which subnet_cfg handed out its entries
    suberr,      \* the exception the phase raised, or "none"
    \* ---- the instances of one build, one by one ----
    seenInstances, \* the instances the provider's listings show
    finishInstances, \* the local `instances` of finish_instance_roles
    fidx,       \* the position of its for loop in finishInstances
    nameTags,   \* per instance, the Name tag tag_instance_name gave it
    locking,    \* the lock_instances call: [called, instances]
    fpc,         \* position of finish_instance_roles: "idle", "loop", "lock"
    \* ---- the load_balancers phase ----
    elbCfg,     \* config['load_balancers']: per name, lb_cfg['instance_role']
    existing_elb_names, \* the local of that name, read once before the loop
    elbNames,   \* the load balancers of the environment
    asgRoles,   \* the roles whose autoscaling group <env>-<role> exists
    elbTodo,    \* the entries the loop has still to visit
    elbCalls,   \* the provider calls of the phase so far: <<call, name>>
    lbpc,        \* position of the phase: "idle", "test", "health", "bind",
                \*   "done", "raised"
    \* ---- security_groups and security_group_rules ----
    sgCfg,      \* config['security_groups']: per group [inbound, outbound],
                \*   the rules of each direction
    sgGroups,   \* the security groups get_security_group finds
    sgTodo,     \* the entries the running loop has still to visit
    sgCalls,    \* the calls made on the groups so far: <<call, group>>
    rpc,         \* "idle", "between" (security_groups returned), "inbound",
                \*   "outbound", "egress", "done", "raised", "AttributeError"
    \* ---- route_table_rules: one route whose target is an instance role ----
    rtZones,    \* the availability zones of the subnets associated with the
                \*   route table
    targets,    \* self.evpc.get_role(target): per instance, in the order of
                \*   the list, the availability zone of its subnet
    nat_instance, \* the local of that name, an index of targets (0: unset)
    unchecked,  \* the instances whose source/destination check is disabled
    routeCalls, \* the calls made for the route so far: <<call, instance>>
    npc,         \* "idle", "chosen", "disabled", "done", "raised"
    \* ---- finish_instance_roles, call by call ----
    finishCfg,  \* instance_role_cfg: per role [eip, source_dest_check]
    running,    \* the local `instances`: per instance [role, autoscaled,
                \*   eips (the addresses it holds)]
    finishPos,  \* the position of the for loop in `running`
    finishCalls, \* the calls made on instances so far: <<call, position>>
    lockCalls,  \* the lock_instances calls so far: the set each was given
    qpc         \* "idle", "loop", "done", "raised"

pipeVars == <<cfg, evpc, pc, run, started, err, outcome, delivered,
              terminated, created, dupCalls, absorbed, lockFailed, resources,
              named>>

placeVars == <<role, roleIn, otherIn, newIn, ppc, calls, result, pre, subs,
               idx, needed_remainder, token, attempts, nextToken, launched,
               batches>>

ensVars == <<ensCfg, catalog, epos, callsBy>>

barVars == <<instance_role_cfg, roles, pending, profileVisible, bpc, skipped,
             seen, attempt_number, sleep, byEngine,
             groups>>

tagVars == <<tag_cfg, resourceTags, safe_tags, todo, tpc, applied>>

subVars == <<subnet_cfg, cidr_block, cidrsBySize, remaining, createdSubnets, spc, handedOut,
             suberr>>

scnVars == <<seenInstances, finishInstances, fidx, nameTags, locking, fpc>>

elbVars == <<elbCfg, existing_elb_names, elbNames, asgRoles, elbTodo,
             elbCalls, lbpc>>

sgVars == <<sgCfg, sgGroups, sgTodo, sgCalls, rpc>>

routeVars == <<rtZones, targets, nat_instance, unchecked, routeCalls, npc>>

finVars == <<finishCfg, running, finishPos, finishCalls, lockCalls, qpc>>

vars == <<pipeVars, placeVars, ensVars, barVars, tagVars, subVars, scnVars, elbVars, sgVars, routeVars, finVars>>

\* what the actions of one specification leave alone
outsidePipe ==
    <<placeVars, ensVars, barVars, tagVars, subVars, scnVars, elbVars, sgVars, routeVars, finVars>>
outsidePlace ==
    <<pipeVars, ensVars, barVars, tagVars, subVars, scnVars, elbVars, sgVars, routeVars, finVars>>
outsideEns ==
    <<pipeVars, placeVars, barVars, tagVars, subVars, scnVars, elbVars, sgVars, routeVars, finVars>>
outsideBar ==
    <<pipeVars, placeVars, ensVars, tagVars, subVars, scnVars, elbVars, sgVars, routeVars, finVars>>
outsideTags ==
    <<pipeVars, placeVars, ensVars, barVars, subVars, scnVars, elbVars, sgVars, routeVars, finVars>>
outsideSub ==
    <<pipeVars, placeVars, ensVars, barVars, tagVars, scnVars, elbVars, sgVars, routeVars, finVars>>
outsideScn ==
    <<pipeVars, placeVars, ensVars, barVars, tagVars, subVars, elbVars, sgVars, routeVars, finVars>>
outsideElb ==
    <<pipeVars, placeVars, ensVars, barVars, tagVars, subVars, scnVars, sgVars, routeVars, finVars>>
outsideSg ==
    <<pipeVars, placeVars, ensVars, barVars, tagVars, subVars, scnVars, elbVars, routeVars, finVars>>
outsideRoute ==
    <<pipeVars, placeVars, ensVars, barVars, tagVars, subVars, scnVars, elbVars, sgVars, finVars>>
outsideFin ==
    <<pipeVars, placeVars, ensVars, barVars, tagVars, subVars, scnVars, elbVars, sgVars, routeVars>>

NoEvpc == 0

(***************************************************************************)
(* _apply_all: the steps in the order the method body runs them.  "amis"   *)
(* is the read of config['amis'] and "EnrichedVPC" the attachment of       *)
(* self.evpc; the others are the phases.                                   *)
(***************************************************************************)
\* the steps with subnets run before route_tables
StepsSwapped ==
    << "amis", "build_vpc", "EnrichedVPC", "build_internet_gateway",
       "attach_vpn_gateway", "dhcp_options", "instance_profiles",
       "subnets", "route_tables", "security_groups", "key_pairs",
       "associate_route_tables_with_subnets", "db_instances",
       "instance_roles", "autoscaling_instance_roles", "endpoints",
       "security_group_rules", "load_balancers",
       "wait_for_instance_roles_to_exist", "finish_instance_roles",
       "route_table_rules", "private_zone", "tags" >>

Steps ==
    << "amis", "build_vpc", "EnrichedVPC", "build_internet_gateway",
       "attach_vpn_gateway", "dhcp_options", "instance_profiles",
       "route_tables", "subnets", "security_groups", "key_pairs",
       "associate_route_tables_with_subnets", "db_instances",
       "instance_roles", "autoscaling_instance_roles", "endpoints",
       "security_group_rules", "load_balancers",
       "wait_for_instance_roles_to_exist", "finish_instance_roles",
       "route_table_rules", "private_zone", "tags" >>

StepSet == { Steps[i] : i \in 1..Len(Steps) }

\* the steps that are not phases of the pipeline
Plumbing == { "amis", "EnrichedVPC" }

Phases == StepSet \ Plumbing

StepIndex(s) == CHOOSE i \in 1..Len(Steps) : Steps[i] = s

\* `if config.get('private_zone', False):` guards the private zone phase
Skipped(s) == s = "private_zone" /\ ~cfg.private_zone

RECURSIVE StepFrom(_)
StepFrom(i) ==
    IF i > Len(Steps) THEN "return"
    ELSE IF Skipped(Steps[i]) THEN StepFrom(i + 1)
    ELSE Steps[i]

\* the step _apply_all runs after step s has returned
NextStep(s) == StepFrom(StepIndex(s) + 1)

(***************************************************************************)
(* Which steps create a resource, and which of them ask the catalog first. *)
(***************************************************************************)
\* steps whose body issues a provider creation call
Creating ==
    { "build_vpc", "build_internet_gateway", "dhcp_options",
      "instance_profiles", "route_tables", "subnets", "security_groups",
      "key_pairs", "db_instances", "instance_roles",
      "autoscaling_instance_roles", "endpoints", "load_balancers",
      "private_zone" }

\* creating steps whose body looks the resource up and creates only if absent
LooksUpFirst ==
    { "instance_profiles", "route_tables", "security_groups", "key_pairs",
      "instance_roles", "autoscaling_instance_roles", "load_balancers" }

(***************************************************************************)
(* @retry(wait_exponential_multiplier=1000, wait_exponential_max=10000),   *)
(* the decorator of five methods.  It names no filter on the exception and *)
(* no stop condition; the two keywords it gives only set the sleep between *)
(* two calls.                                                              *)
(***************************************************************************)
\* what the body of a decorated method raises: a fault of the provider that
\* passes, a request the provider rejects however often it is sent, and the
\* Exception the two waits raise themselves while what they await is absent
ExcKinds == { "transient", "malformed", "unmet" }

\* the decorated method a phase calls
Wrapped ==
    [ dhcp_options |-> "_get_dhcp_options_from_id",
      instance_roles |-> "_create_instances",
      autoscaling_instance_roles |-> "wait_for_instance_profile",
      wait_for_instance_roles_to_exist |-> "wait_for_instance_roles_to_exist",
      finish_instance_roles |-> "tag_instance_name" ]

\* the decorated methods that raise Exception themselves
Waits == { "wait_for_instance_profile", "wait_for_instance_roles_to_exist" }

Raises(method) ==
    IF method \in Waits THEN ExcKinds ELSE ExcKinds \ { "unmet" }

wait_exponential_multiplier == 1000

wait_exponential_max == 10000

\* Retrying.exponential_sleep: the sleep after the attempt of that number
ExponentialSleep(previous_attempt_number) ==
    LET ms == wait_exponential_multiplier * 2^previous_attempt_number
    IN IF ms > wait_exponential_max
       THEN wait_exponential_max
       ELSE ms

\* Retrying.should_reject: with no retry_on_exception given, an attempt that
\* ended in an exception is rejected whatever the exception is
ShouldReject(exc) == TRUE

\* Retrying.stop: with neither stop_max_attempt_number nor stop_max_delay
\* given, no attempt is the last one, however many there were and however
\* long they took
ShouldStop == FALSE

\* finish_instance_roles, `try: ... lock_instances(...) except: log`: where
\* control goes after the lock call
AfterLockPropagates(lock_raised) == IF lock_raised THEN "raise" ELSE "return"

AfterLock(lock_raised) == "return"

\* steps whose body can let an exception out: the plumbing cannot, the VPN
\* step does nothing unless the configuration asks for it, and the barrier
\* is a decorated method as a whole
CanRaise(s) ==
    /\ s \notin Plumbing
    /\ (s = "attach_vpn_gateway" => cfg.vpn_gateway)
    /\ s # "wait_for_instance_roles_to_exist"

Configs == [ amis : BOOLEAN, private_zone : BOOLEAN, vpn_gateway : BOOLEAN ]

(***************************************************************************)
(* The provider, as the builder sees it.                                   *)
(***************************************************************************)
LiveVpcs == { r[1] : r \in { x \in resources : x[2] = "build_vpc" } }

\* the VPCs the name vpc_name resolves to
NamedVpcs == LiveVpcs \cap named

\* EnrichedVPC.terminate: every resource of the handle's environment goes
Terminate(v) == { r \in resources : r[1] # v }

(***************************************************************************)
(* instance_role: the inputs.                                              *)
(***************************************************************************)
\* the subnets of the environment; evpc.get_subnet resolves these names
SubnetNames == { "a", "b", "c" }

\* role_data['subnets']; "x" is a name that resolves to no subnet
CfgSubnetLists ==
    { << >>, << "x" >>, << "a" >>, << "b", "a" >>, << "a", "x", "b" >>,
      << "a", "b", "c" >>, << "c", "b", "a" >> }

Roles == [ count : 0..MaxCount, autoscaling : BOOLEAN, subnets : CfgSubnetLists ]

RECURSIVE SumOver(_, _)
SumOver(f, S) ==
    IF S = {} THEN 0
    ELSE LET x == CHOOSE y \in S : TRUE IN f[x] + SumOver(f, S \ {x})

Total(f) == SumOver(f, SubnetNames)

\* the ways to spread at most n instances over the subnets
Spreads(n) == { f \in [SubnetNames -> 0..n] : Total(f) <= n }

Zero == [ s \in SubnetNames |-> 0 ]

(***************************************************************************)
(* instance_role: the pure parts, as the method computes them.             *)
(***************************************************************************)
\* map_filter_false(self.evpc.get_subnet, role_data.get('subnets', []))
Eligible(names) == SelectSeq(names, LAMBDA s : s \in SubnetNames)

\* collection_len(sn.instances): every instance in the subnet
Occupancy == [ s \in SubnetNames |-> roleIn[s] + otherIn[s] + newIn[s] ]

\* the most occupied subnet first
RECURSIVE SortedDescending(_, _)
SortedDescending(seq, key) ==
    IF seq = << >> THEN << >>
    ELSE LET init == SortedDescending(SubSeq(seq, 1, Len(seq) - 1), key)
             x == seq[Len(seq)]
         IN SelectSeq(init, LAMBDA y : key[y] >= key[x]) \o << x >>
            \o SelectSeq(init, LAMBDA y : key[y] < key[x])

\* sorted(subnets, key = ...): ascending and stable
RECURSIVE Sorted(_, _)
Sorted(seq, key) ==
    IF seq = << >> THEN << >>
    ELSE LET init == Sorted(SubSeq(seq, 1, Len(seq) - 1), key)
             x == seq[Len(seq)]
         IN SelectSeq(init, LAMBDA y : key[y] <= key[x]) \o << x >>
            \o SelectSeq(init, LAMBDA y : key[y] > key[x])

\* `>` in place of `>=`
SatisfiedStrict(existing_count, desired_count) == existing_count > desired_count

\* `if existing_count >= desired_count:` the role needs nothing
Satisfied(existing_count, desired_count) == existing_count >= desired_count

\* needed_per_subnet = desired_count / len(subnets): `/` on two ints, the
\* floor division of the Python 2 the module is written for
NeededPerSubnet(desired_count, k) == desired_count \div k

\* needed_remainder = desired_count % len(subnets)
NeededRemainder(desired_count, k) == desired_count % k

\* the share alone, whatever the subnet already holds
BatchCountOfShare(per, rem, existing_in_subnet) ==
    per + (IF rem # 0 THEN 1 ELSE 0)

\* count = needed_per_subnet - existing_in_subnet, plus one while a
\* remainder is left
BatchCount(per, rem, existing_in_subnet) ==
    per - existing_in_subnet + (IF rem # 0 THEN 1 ELSE 0)

\* one token drawn for the whole loop
LoopTokenKept(current, fresh) == IF current = 0 THEN fresh ELSE current

\* kwargs['ClientToken'] = str(uuid4()), first statement of every pass of
\* the loop
LoopToken(current, fresh) == fresh

\* a token drawn anew by every attempt
AttemptTokenFresh(batch_token, fresh) == fresh

\* _create_instances passes kwargs on as they are: every attempt of a batch
\* carries the ClientToken the loop put there
AttemptToken(batch_token, fresh) == batch_token

\* the batches of the current invocation, in the order they were requested
Requests == SelectSeq(batches, LAMBDA b : b.call = calls)

(***************************************************************************)
(* The ensure phases: the inputs.                                          *)
(***************************************************************************)
\* config['route_tables']: name -> whether the table is flagged `main`
RouteCfgs ==
    { << >>,
      [ n \in { "public" } |-> TRUE ],
      [ n \in { "public", "private" } |-> FALSE ],
      [ n \in { "public", "private" } |-> n = "public" ] }

\* config['security_groups']: the names of the groups
SecurityGroupCfgs == { {}, { "web" }, { "web", "db" } }

\* config['key_pairs']: a list of names
KeyPairCfgs == { << >>, << "admin" >>, << "admin", "default" >>,
                 << "ops", "ops" >> }

\* config['instance_roles']: name -> [autoscaling, instance_profile_name];
\* "" is no instance profile
RoleCfgs ==
    { [ n \in { "web" } |-> [ autoscaling |-> FALSE, profile |-> "" ] ],
      [ n \in { "web", "worker" } |->
          [ autoscaling |-> n = "web", profile |-> "p" ] ],
      [ n \in { "web", "worker" } |->
          [ autoscaling |-> TRUE,
            profile |-> IF n = "web" THEN "" ELSE "q" ] ] }

\* config['load_balancers']: name -> instance_role
LoadBalancerCfgs ==
    { << >>,
      [ n \in { "lb" } |-> "web" ],
      [ n \in { "lb", "lb2" } |-> IF n = "lb" THEN "web" ELSE "worker" ] }

Kinds == { "instance_profile", "route_table", "security_group", "key_pair",
           "autoscaling_group", "load_balancer" }

\* the ensure phases in the order _apply_all runs them
EnsureOrder == << "instance_profiles", "route_tables", "security_groups",
                  "key_pairs", "autoscaling_instance_roles",
                  "load_balancers" >>

EnsurePhases == { EnsureOrder[i] : i \in 1..Len(EnsureOrder) }

EnsureIndex(p) == CHOOSE i \in 1..Len(EnsureOrder) : EnsureOrder[i] = p

\* the catalog left by an earlier build of a smaller configuration
Leftover ==
    [ k \in Kinds |->
        IF k = "route_table" THEN { "public" }
        ELSE IF k = "security_group" THEN { "web" }
        ELSE IF k = "key_pair" THEN { "default" }
        ELSE {} ]

Range(q) == { q[i] : i \in 1..Len(q) }

(***************************************************************************)
(* The ensure phases: for each, the names its body issues a creation call  *)
(* for, given its configuration section and the names that resolve.        *)
(***************************************************************************)
\* instance_profiles / _get_or_create_iam_instance_profile: a profile is
\* created for every truthy instance_profile_name that get_instance_profile
\* does not find
InstanceProfilesToCreate(role_cfg, found) ==
    { role_cfg[r].profile : r \in { x \in DOMAIN role_cfg : role_cfg[x].profile # "" } }
        \ found

\* route_tables: a table that does not resolve is created unless it is the
\* main one, which exists with the VPC and is only tagged
RouteTablesToCreate(route_cfg, found) ==
    { n \in DOMAIN route_cfg : ~route_cfg[n] } \ found

\* route_tables: every configured table carries its Name tag afterwards
RouteTablesTagged(route_cfg, found) == DOMAIN route_cfg \ found

\* every configured group, found or not
SecurityGroupsToCreateAll(security_group_cfg, found) == security_group_cfg

\* security_groups: `if sg is not None: continue`
SecurityGroupsToCreate(security_group_cfg, found) == security_group_cfg \ found

\* key_pairs: 'default' is appended to the list, then every name that
\* get_key_pair does not find is created
KeyPairsToCreate(key_pair_cfg, found) ==
    Range(Append(key_pair_cfg, "default")) \ found

\* autoscaling_instance_role: a role flagged autoscaling whose long name is
\* not among the autoscaling group names gets a launch configuration and a
\* group
AutoscalingGroupsToCreate(role_cfg, found) ==
    { r \in DOMAIN role_cfg : role_cfg[r].autoscaling } \ found

\* load_balancers: `if lb_fullname in existing_elb_names: continue`
LoadBalancersToCreate(load_balancer_cfg, found) == DOMAIN load_balancer_cfg \ found

(***************************************************************************)
(* The state of each part while the specification of another part runs.   *)
(***************************************************************************)
NoPlacement ==
    /\ role = [ count |-> 0, autoscaling |-> FALSE, subnets |-> << >> ]
    /\ roleIn = Zero
    /\ otherIn = Zero
    /\ newIn = Zero
    /\ ppc = "idle"
    /\ calls = 0
    /\ result = "none"
    /\ pre = [ roleIn |-> Zero, otherIn |-> Zero ]
    /\ subs = << >>
    /\ idx = 0
    /\ needed_remainder = 0
    /\ token = 0
    /\ attempts = 0
    /\ nextToken = 1
    /\ launched = {}
    /\ batches = << >>

NoPipeline ==
    /\ cfg = [ amis |-> TRUE, private_zone |-> FALSE, vpn_gateway |-> FALSE ]
    /\ evpc = NoEvpc
    /\ pc = "idle"
    /\ run = 0
    /\ started = << >>
    /\ err = "none"
    /\ outcome = "none"
    /\ delivered = "none"
    /\ terminated = FALSE
    /\ created = {}
    /\ dupCalls = {}
    /\ absorbed = "none"
    /\ lockFailed = FALSE
    /\ resources = {}
    /\ named = {}

NoEnsure ==
    /\ ensCfg = [ route_tables |-> << >>, security_groups |-> {},
                  key_pairs |-> << >>,
                  instance_roles |-> << >>, load_balancers |-> << >> ]
    /\ catalog = [ k \in Kinds |-> {} ]
    /\ epos = 0
    /\ callsBy = [ p \in EnsurePhases |-> << >> ]


(***************************************************************************)
(* The instance roles and the barrier: the inputs.                         *)
(***************************************************************************)
RoleNames == { "web", "nat" }

\* a fixed role's subnets resolve or not; the profile wait is called for
\* autoscaled roles only
BarRoleCfgs ==
    { c \in [ count : 0..MaxDesired, autoscaling : BOOLEAN,
              resolves : BOOLEAN, instance_profile_name : BOOLEAN ] :
        /\ c.autoscaling => c.resolves
        /\ ~c.autoscaling => ~c.instance_profile_name }

NoInstances == [ r \in RoleNames |-> 0 ]

\* instance_role: `if len(subnets) == 0:` warn and return
SkippedRoles(role_cfg) ==
    { r \in DOMAIN role_cfg :
        ~role_cfg[r].autoscaling /\ ~role_cfg[r].resolves }

\* instance_role against an empty environment: the batches of a fixed role
\* with eligible subnets add up to desired_count
RequestedFixed(role_cfg, r) ==
    IF /\ ~role_cfg[r].autoscaling
       /\ role_cfg[r].resolves
       /\ ~(0 >= role_cfg[r].count)
    THEN role_cfg[r].count
    ELSE 0

\* autoscaling_instance_role: DesiredCapacity = desired_count
RequestedAutoscaled(role_cfg, r) ==
    IF role_cfg[r].autoscaling THEN role_cfg[r].count ELSE 0

\* autoscaling_instance_role without its first test: a group for every role
GroupsCreatedWhateverTheFlag(role_cfg) == DOMAIN role_cfg

\* autoscaling_instance_role: `if role_data.get('autoscaling', False) != True:
\* return None`, then create_auto_scaling_group; no group of the environment
\* exists before
GroupsCreated(role_cfg) == { r \in DOMAIN role_cfg : role_cfg[r].autoscaling }

\* autoscaling_instance_role calls wait_for_instance_profile
AwaitsProfile(role_cfg) ==
    \E r \in DOMAIN role_cfg :
        role_cfg[r].autoscaling /\ role_cfg[r].instance_profile_name

\* wait_for_instance_roles_to_exist: `if desired_count > actual_count:`
UnmetOffByOne(desired_count, actual_count) == desired_count > actual_count + 1

Unmet(desired_count, actual_count) == desired_count > actual_count

\* the comparison made for the roles that are not autoscaled only
BarrierRaisesForFixed(role_cfg, observed) ==
    \E r \in DOMAIN role_cfg :
        ~role_cfg[r].autoscaling /\ Unmet(role_cfg[r].count, observed[r])

\* the barrier's loop over instance_role_cfg.items() raises
BarrierRaises(role_cfg, observed) ==
    \E r \in DOMAIN role_cfg : Unmet(role_cfg[r].count, observed[r])

NoBarrier ==
    /\ instance_role_cfg = [ r \in RoleNames |->
          [ count |-> 0, autoscaling |-> FALSE, resolves |-> FALSE,
            instance_profile_name |-> FALSE ] ]
    /\ roles = NoInstances
    /\ pending = NoInstances
    /\ profileVisible = FALSE
    /\ bpc = "idle"
    /\ skipped = {}
    /\ seen = NoInstances
    /\ attempt_number = 0
    /\ sleep = 0
    /\ byEngine = NoInstances
    /\ groups = {}


(***************************************************************************)
(* The tags phase: the inputs.                                             *)
(***************************************************************************)
\* tags(): the list of that name
reserved_tags ==
    { "Name", "role", "aws:autoscaling:groupName", "key_pairs",
      "private_hosted_zone_id", "vpc_name" }

TagKeys == reserved_tags \cup { "owner" }

\* a value of the mapping, <<type, text>>: an integer, a string, a boolean
TagValues == { <<"int", "7">>, <<"str", "7">>, <<"bool", "True">> }

Absent == <<"absent", "">>

\* str(value)
Str(value) == <<"str", value[2]>>

Present(mapping) == { k \in TagKeys : mapping[k] # Absent }

TagCfgs ==
    { c \in [ TagKeys -> TagValues \cup { Absent } ] :
        Cardinality(Present(c)) <= MaxTags }

NoTagsAt == [ k \in TagKeys |-> Absent ]

\* the resources self.evpc.taggable_resources lists, in its order
TaggableResources == << "vpc", "instance" >>

\* the tags they carry when the phase starts
TagsBefore ==
    [ vpc |-> [ NoTagsAt EXCEPT !["Name"] = <<"str", "env">>,
                                !["key_pairs"] = <<"str", "default">>,
                                !["owner"] = <<"str", "nobody">> ],
      instance |-> [ NoTagsAt EXCEPT !["Name"] = <<"str", "env-web-1">>,
                                     !["role"] = <<"str", "web">> ] ]

\* the loop that fills safe_tags, with the values as they are
SafeTagsUnconverted(mapping) ==
    [ k \in TagKeys |->
        IF k \in Present(mapping) /\ k \notin reserved_tags
        THEN mapping[k]
        ELSE Absent ]

\* the loop that fills safe_tags
SafeTags(mapping) ==
    [ k \in TagKeys |->
        IF k \in Present(mapping) /\ k \notin reserved_tags
        THEN Str(mapping[k])
        ELSE Absent ]

\* update_tags(resource, **given): the given keys are set, the others stay
UpdateTags(old, given) ==
    [ k \in TagKeys |-> IF given[k] # Absent THEN given[k] ELSE old[k] ]

NoTags ==
    /\ tag_cfg = NoTagsAt
    /\ resourceTags = TagsBefore
    /\ safe_tags = NoTagsAt
    /\ todo = << >>
    /\ tpc = "idle"
    /\ applied = [ r \in DOMAIN TagsBefore |-> {} ]


(***************************************************************************)
(* Address blocks.  A block is [addr, prefix]: the 2^(32 - prefix)         *)
(* addresses from addr on.  Where the program holds a block as text it is  *)
(* <<a, b, c, d, prefix>> here.                                            *)
(***************************************************************************)
Ip(a, b, c, d) == ((a * 256 + b) * 256 + c) * 256 + d

Capacity(prefix) == 2^(32 - prefix)

\* IPNetwork('a.b.c.d/prefix')
ParseCidr(text) ==
    [ addr |-> Ip(text[1], text[2], text[3], text[4]), prefix |-> text[5] ]

\* str(cidr)
FormatCidr(block) ==
    << block.addr \div 16777216, (block.addr \div 65536) % 256,
       (block.addr \div 256) % 256, block.addr % 256, block.prefix >>

Addresses(block) == block.addr .. (block.addr + Capacity(block.prefix) - 1)

Disjoint(b1, b2) ==
    \/ b1.addr + Capacity(b1.prefix) <= b2.addr
    \/ b2.addr + Capacity(b2.prefix) <= b1.addr

Within(b, parent) ==
    /\ parent.addr <= b.addr
    /\ b.addr + Capacity(b.prefix) <= parent.addr + Capacity(parent.prefix)

(***************************************************************************)
(* allocate(parent_block, sizes): the sizes are prefix lengths.  The       *)
(* requests are served largest block first, each from the lowest free      *)
(* address, and the blocks come back in the order of the requests.         *)
(***************************************************************************)
RECURSIVE TotalCapacity(_)
TotalCapacity(sizes) ==
    IF sizes = << >> THEN 0
    ELSE Capacity(Head(sizes)) + TotalCapacity(Tail(sizes))

\* the requests, by position, in the order they are served
ServeOrder(sizes) ==
    Sorted([ i \in 1..Len(sizes) |-> i ], [ i \in 1..Len(sizes) |-> sizes[i] ])

\* the check of the sizes alone, without the total
AllocatableEachAlone(parent, sizes) ==
    \A i \in 1..Len(sizes) : sizes[i] >= parent.prefix /\ sizes[i] <= 32

Allocatable(parent, sizes) ==
    /\ \A i \in 1..Len(sizes) : sizes[i] >= parent.prefix /\ sizes[i] <= 32
    /\ TotalCapacity(sizes) <= Capacity(parent.prefix)

allocate(parent_block, sizes) ==
    LET parent == ParseCidr(parent_block)
        order == ServeOrder(sizes)
        served(k) == [ j \in 1..(k - 1) |-> sizes[order[j]] ]
        place(i) == CHOOSE k \in 1..Len(order) : order[k] = i
    IN IF ~Allocatable(parent, sizes)
       THEN [ raised |-> "AllocationError", blocks |-> << >> ]
       ELSE [ raised |-> "none",
              blocks |->
                [ i \in 1..Len(sizes) |->
                    [ addr |-> parent.addr + TotalCapacity(served(place(i))),
                      prefix |-> sizes[i] ] ] ]

(***************************************************************************)
(* The subnets phase: the inputs.                                          *)
(***************************************************************************)
\* a subnet name <<stem, n>> stands for 'stem-n'
SubnetCfgNames == { <<"net", n>> : n \in 1..MaxSubnets }

\* sorted(subnet_cfg): names with one stem are in the order of their number
NameKey == [ sn_name \in SubnetCfgNames |-> sn_name[2] ]

\* int(sn_name.split('-')[-1])
NameNumber(sn_name) == sn_name[2]

SubnetSizes == { 25, 26, 27 }

SubnetSpecs == [ size : SubnetSizes, availability_zone : { "none", "c" } ]

SubnetCfgs == UNION { [ D -> SubnetSpecs ] : D \in SUBSET SubnetCfgNames }

VpcCidrs == { <<10, 0, 0, 0, 24>>, <<10, 0, 1, 128, 25>> }

\* self.evpc.azones and self.evpc.region_name
\* (a zone name <<region, letter>> stands for region + letter)
region_name == "us-east-1"

azones == << <<region_name, "a">>, <<region_name, "b">> >>

\* the orders in which a mapping can hand out its items
Orders(S) ==
    { q \in [ 1..Cardinality(S) -> S ] : \A x \in S : \E i \in DOMAIN q : q[i] = x }

\* the names in the order the mapping hands them out
NamesAsHandedOut(items) == items

\* sorted(subnet_cfg)
SortedNames(items) == Sorted(items, NameKey)

\* `for size, cidr in zip(sizes, cidrs): subnets.setdefault(size, [])
\* .append(cidr)` without the key: every size sees every block
UngroupedBySize(sizes, cidrs) ==
    [ size \in Range(sizes) |-> cidrs ]

\* `for size, cidr in zip(sizes, cidrs): subnets.setdefault(size, [])
\* .append(cidr)`
GroupBySize(sizes, cidrs) ==
    [ size \in Range(sizes) |->
        LET at == SelectSeq([ i \in 1..Len(sizes) |-> i ],
                            LAMBDA i : sizes[i] = size)
        IN [ j \in 1..Len(at) |-> cidrs[at[j]] ] ]

NoSubnets ==
    /\ subnet_cfg = << >>
    /\ cidr_block = <<0, 0, 0, 0, 32>>
    /\ cidrsBySize = << >>
    /\ remaining = << >>
    /\ createdSubnets = << >>
    /\ spc = "idle"
    /\ handedOut = << >>
    /\ suberr = "none"


(***************************************************************************)
(* One build, instance by instance: the inputs.                            *)
(***************************************************************************)
\* self.evpc.name and the name of the one configured role
vpc_name == "env"

role_name == "web"

\* the configured subnets the role lists under the names "a" and "b"
ConfiguredAs == [ a |-> <<"net", 1>>, b |-> <<"net", 2>> ]

\* the instances the provider launched: the k-th instance of the i-th batch
LaunchedInstances ==
    { ik \in (DOMAIN batches) \X (1..MaxCount) : ik[2] <= batches[ik[1]].got }

\* instance.subnet
SubnetOf(instance) == batches[instance[1]].subnet

\* the instances carrying the role tag: instance_role tags them as it returns
RoleTagged == IF ppc = "idle" /\ result = "created" THEN LaunchedInstances ELSE {}

\* '{}-{}-{}'.format(self.evpc.name, instance.role, instance.id_human)
Hostname(evpc_name, instance_role, id_human) ==
    <<evpc_name, instance_role, id_human>>

\* self.evpc.get_normal_instances(instances): those outside autoscaling groups
get_normal_instances(instances) ==
    IF role.autoscaling THEN {}
    ELSE { instances[i] : i \in DOMAIN instances }

NotLocked == [ called |-> FALSE, instances |-> {} ]

NoScenario ==
    /\ seenInstances = {}
    /\ finishInstances = << >>
    /\ fidx = 0
    /\ nameTags = << >>
    /\ locking = NotLocked
    /\ fpc = "idle"


(***************************************************************************)
(* The load_balancers phase: the inputs.                                   *)
(***************************************************************************)
BalancerNames == { "lb", "lb2" }

BoundRoles == { "web", "worker" }

\* config['load_balancers'] with lb_cfg['instance_role'] for every entry
BalancerCfgs == UNION { [ D -> BoundRoles ] : D \in SUBSET BalancerNames }

\* the binding call without the test for the group
BindingAlwaysDirect(instance_role, group_roles) ==
    "register_role_with_load_balancer"

\* `if asg_name in self.evpc.autoscaling.get_related_autoscaling_group_names():`
\* attach_load_balancers, else register_role_with_load_balancer
Binding(instance_role, group_roles) ==
    IF instance_role \in group_roles
    THEN "attach_load_balancers"
    ELSE "register_role_with_load_balancer"

NoBalancers ==
    /\ elbCfg = << >>
    /\ existing_elb_names = {}
    /\ elbNames = {}
    /\ asgRoles = {}
    /\ elbTodo = << >>
    /\ elbCalls = << >>
    /\ lbpc = "idle"


(***************************************************************************)
(* The security group rules: the inputs.                                   *)
(***************************************************************************)
SecurityGroupNames == { "web", "db" }

\* the rules of one direction: none, or one rule
RuleLists == { << >>, << "rule" >> }

SecurityGroupRuleCfgs ==
    UNION { [ D -> [ inbound : RuleLists, outbound : RuleLists ] ] :
            D \in SUBSET SecurityGroupNames }

\* security_group_rules_to_permissions: one permission for every rule of
\* the direction
Permissions(rules, direction) ==
    [ i \in DOMAIN rules[direction] |-> <<"permission", rules[direction][i]>> ]

\* the default rule revoked whatever the permissions
IssuedAlways(permissions) == TRUE

\* `if permissions:`
Issued(permissions) == permissions # << >>

NoRules ==
    /\ sgCfg = << >>
    /\ sgGroups = {}
    /\ sgTodo = << >>
    /\ sgCalls = << >>
    /\ rpc = "idle"


(***************************************************************************)
(* route_table_rules: the inputs, and the choice of the target instance.   *)
(***************************************************************************)
ZoneLetters == { "a", "b", "c" }

\* the instances of the target role, each with the zone of its subnet
TargetLists == UNION { [ 1..n -> ZoneLetters ] : n \in 0..MaxTargets }

\* the instance choice() picked, kept whatever the zones
Uncorrelated(instances, zones, picked) == picked

\* `for instance in instances: if instance.subnet.availability_zone in
\* azones: nat_instance = instance`, starting from the instance choice()
\* picked: the last instance of the list in one of the zones, if there is one
Correlated(instances, zones, picked) ==
    LET matching == { i \in DOMAIN instances : instances[i] \in zones }
    IN IF matching = {} THEN picked
       ELSE CHOOSE i \in matching : \A j \in matching : j <= i

NoRoutes ==
    /\ rtZones = {}
    /\ targets = << >>
    /\ nat_instance = 0
    /\ unchecked = {}
    /\ routeCalls = << >>
    /\ npc = "idle"


(***************************************************************************)
(* finish_instance_roles: the inputs, and the calls of one pass.           *)
(***************************************************************************)
\* role_cfg['eip'] is set or not; role_cfg['source_dest_check'] is absent,
\* True or False
FinishRoleCfgs == [ eip : BOOLEAN, source_dest_check : { "absent", "True", "False" } ]

FinishCfgs == UNION { [ D -> FinishRoleCfgs ] : D \in SUBSET RoleNames }

RunningInstances == [ role : RoleNames, autoscaled : BOOLEAN, eips : 0..1 ]

RunningLists == UNION { [ 1..n -> RunningInstances ] : n \in 0..MaxRunning }

\* instance_role_cfg.get(instance.role, {}).get('eip', False)
RequiresEip(role_cfgs, instance) ==
    instance.role \in DOMAIN role_cfgs /\ role_cfgs[instance.role].eip

\* instance_role_cfg.get(instance.role, {}).get('source_dest_check', True)
SourceDestCheck(role_cfgs, instance) ==
    IF instance.role \notin DOMAIN role_cfgs THEN "True"
    ELSE IF role_cfgs[instance.role].source_dest_check = "absent" THEN "True"
    ELSE role_cfgs[instance.role].source_dest_check

\* the body of the loop with an address for every instance of a role that
\* requires one
PassCallsWhateverItHolds(role_cfgs, instance) ==
    << "wait_until_running", "tag_instance_name", "tag_instance_volumes" >>
    \o (IF RequiresEip(role_cfgs, instance)
        THEN << "allocate_and_associate_eip" >> ELSE << >>)
    \o (IF SourceDestCheck(role_cfgs, instance) = "False"
        THEN << "source_dest_check_disable" >> ELSE << >>)

\* the body of `for instance in instances:`, the calls in their order
PassCalls(role_cfgs, instance) ==
    << "wait_until_running", "tag_instance_name", "tag_instance_volumes" >>
    \o (IF RequiresEip(role_cfgs, instance) /\ instance.eips = 0
        THEN << "allocate_and_associate_eip" >> ELSE << >>)
    \o (IF SourceDestCheck(role_cfgs, instance) = "False"
        THEN << "source_dest_check_disable" >> ELSE << >>)

\* self.evpc.get_normal_instances(instances), by position
NormalInstances(instances) ==
    { i \in DOMAIN instances : ~instances[i].autoscaled }

NoFinish ==
    /\ finishCfg = << >>
    /\ running = << >>
    /\ finishPos = 0
    /\ finishCalls = << >>
    /\ lockCalls = << >>
    /\ qpc = "idle"

(***************************************************************************)
(* The initial states.  Spec: a fresh builder (__init__ binds no evpc) and *)
(* an empty account.  SpecPlace: a role, and instances spread over the     *)
(* subnets.  SpecEnsure: a configuration, and an empty catalog or the one  *)
(* an earlier build left.                                                  *)
(***************************************************************************)
InitPipe ==
    /\ cfg \in Configs
    /\ evpc = NoEvpc
    /\ pc = "idle"
    /\ run = 0
    /\ started = << >>
    /\ err = "none"
    /\ outcome = "none"
    /\ delivered = "none"
    /\ terminated = FALSE
    /\ created = {}
    /\ dupCalls = {}
    /\ absorbed = "none"
    /\ lockFailed = FALSE
    /\ resources = {}
    /\ named = {}

Init == InitPipe /\ NoPlacement /\ NoEnsure /\ NoBarrier /\ NoTags /\ NoSubnets /\ NoScenario /\ NoBalancers /\ NoRules /\ NoRoutes /\ NoFinish

InitPlace ==
    /\ NoFinish
    /\ NoRoutes
    /\ NoRules
    /\ NoBalancers
    /\ NoScenario
    /\ NoSubnets
    /\ NoTags
    /\ NoBarrier
    /\ NoPipeline
    /\ NoEnsure
    /\ role \in Roles
    /\ roleIn \in Spreads(MaxExisting)
    /\ otherIn \in Spreads(MaxOther)
    /\ newIn = Zero
    /\ ppc = "idle"
    /\ calls = 0
    /\ result = "none"
    /\ pre = [ roleIn |-> roleIn, otherIn |-> otherIn ]
    /\ subs = << >>
    /\ idx = 0
    /\ needed_remainder = 0
    /\ token = 0
    /\ attempts = 0
    /\ nextToken = 1
    /\ launched = {}
    /\ batches = << >>

InitEnsure ==
    /\ NoFinish
    /\ NoRoutes
    /\ NoRules
    /\ NoBalancers
    /\ NoScenario
    /\ NoSubnets
    /\ NoTags
    /\ NoBarrier
    /\ NoPipeline
    /\ NoPlacement
    /\ ensCfg \in [ route_tables : RouteCfgs,
                    security_groups : SecurityGroupCfgs,
                    key_pairs : KeyPairCfgs,
                    instance_roles : RoleCfgs,
                    load_balancers : LoadBalancerCfgs ]
    /\ catalog \in { [ k \in Kinds |-> {} ], Leftover }
    /\ epos = 0
    /\ callsBy = [ p \in EnsurePhases |-> << >> ]

(***************************************************************************)
(* instance_role is called: everything before the for loop.  The early     *)
(* returns are the autoscaling flag, no eligible subnet, and enough        *)
(* instances of the role anywhere in the environment.                      *)
(***************************************************************************)
InstanceRole ==
    /\ ppc = "idle"
    /\ calls < MaxCalls
    /\ calls' = calls + 1
    /\ pre' = [ roleIn |-> roleIn, otherIn |-> otherIn ]
    /\ LET subnets == Eligible(role.subnets)
           desired_count == role.count
           existing_count == Total(roleIn)
       IN IF role.autoscaling
          THEN /\ result' = "autoscaling"
               /\ UNCHANGED <<ppc, subs, idx, needed_remainder>>
          ELSE IF Len(subnets) = 0
          THEN /\ result' = "no_subnets"
               /\ UNCHANGED <<ppc, subs, idx, needed_remainder>>
          ELSE IF Satisfied(existing_count, desired_count)
          THEN /\ result' = "skipped"
               /\ subs' = Sorted(subnets, Occupancy)
               /\ UNCHANGED <<ppc, idx, needed_remainder>>
          ELSE /\ result' = "none"
               /\ subs' = Sorted(subnets, Occupancy)
               /\ idx' = 1
               /\ needed_remainder' = NeededRemainder(desired_count, Len(subnets))
               /\ ppc' = "loop"
    /\ UNCHANGED <<role, roleIn, otherIn, newIn, token, attempts, nextToken,
                   launched, batches>>
    /\ UNCHANGED outsidePlace

(***************************************************************************)
(* One pass of `for subnet in subnets:` up to the creation call: a fresh   *)
(* ClientToken, the count of the subnet, and either `continue` or the      *)
(* request of a batch.                                                     *)
(***************************************************************************)
LoopPass ==
    /\ ppc = "loop"
    /\ idx <= Len(subs)
    /\ LET subnet == subs[idx]
           per == NeededPerSubnet(role.count, Len(subs))
           count == BatchCount(per, needed_remainder, roleIn[subnet])
           tok == LoopToken(token, nextToken)
       IN /\ token' = tok
          /\ nextToken' = nextToken + 1
          /\ needed_remainder' = IF needed_remainder # 0
                                 THEN needed_remainder - 1
                                 ELSE needed_remainder
          /\ IF count = 0
             THEN /\ idx' = idx + 1
                  /\ UNCHANGED <<ppc, batches, attempts>>
             ELSE /\ batches' = Append(batches,
                        [ call |-> calls, subnet |-> subnet, count |-> count,
                          token |-> tok, sent |-> {}, got |-> 0,
                          acted |-> 0, returned |-> FALSE ])
                  /\ attempts' = 0
                  /\ ppc' = "create"
                  /\ idx' = idx
    /\ UNCHANGED <<role, roleIn, otherIn, newIn, calls, result, pre, subs,
                   launched>>
    /\ UNCHANGED outsidePlace

(***************************************************************************)
(* subnet.create_instances under @retry.  The provider launches `count`    *)
(* instances for a client token it has not seen and none for one it has;   *)
(* it refuses a count below one.                                           *)
(***************************************************************************)
\* the provider's side of one request
Launches(tok, count) == IF tok \in launched \/ count < 1 THEN 0 ELSE count

\* the attempt raises before the provider acts on it; @retry calls again
AttemptRefused ==
    /\ ppc = "create"
    /\ attempts < MaxRetries
    /\ LET i == Len(batches)
           tok == AttemptToken(token, nextToken)
       IN /\ batches' = [ batches EXCEPT ![i].sent = @ \cup {tok} ]
          /\ nextToken' = IF tok = nextToken THEN nextToken + 1 ELSE nextToken
    /\ attempts' = attempts + 1
    /\ UNCHANGED <<role, roleIn, otherIn, newIn, ppc, calls, result, pre,
                   subs, idx, needed_remainder, token, launched>>
    /\ UNCHANGED outsidePlace

\* the provider acts on the attempt and the response is lost; @retry calls again
AttemptLost ==
    /\ ppc = "create"
    /\ attempts < MaxRetries
    /\ LET i == Len(batches)
           b == batches[i]
           tok == AttemptToken(token, nextToken)
           n == Launches(tok, b.count)
       IN /\ b.count >= 1
          /\ batches' = [ batches EXCEPT ![i].sent = @ \cup {tok},
                                         ![i].got = @ + n,
                                         ![i].acted = @ + 1 ]
          /\ newIn' = [ newIn EXCEPT ![b.subnet] = @ + n ]
          /\ launched' = launched \cup {tok}
          /\ nextToken' = IF tok = nextToken THEN nextToken + 1 ELSE nextToken
    /\ attempts' = attempts + 1
    /\ UNCHANGED <<role, roleIn, otherIn, ppc, calls, result, pre, subs, idx,
                   needed_remainder, token>>
    /\ UNCHANGED outsidePlace

\* the provider acts on the attempt and the instances are returned
AttemptReturns ==
    /\ ppc = "create"
    /\ LET i == Len(batches)
           b == batches[i]
           tok == AttemptToken(token, nextToken)
           n == Launches(tok, b.count)
       IN /\ b.count >= 1
          /\ batches' = [ batches EXCEPT ![i].sent = @ \cup {tok},
                                         ![i].got = @ + n,
                                         ![i].acted = @ + 1,
                                         ![i].returned = TRUE ]
          /\ newIn' = [ newIn EXCEPT ![b.subnet] = @ + n ]
          /\ launched' = launched \cup {tok}
          /\ nextToken' = IF tok = nextToken THEN nextToken + 1 ELSE nextToken
    /\ ppc' = "loop"
    /\ idx' = idx + 1
    /\ UNCHANGED <<role, roleIn, otherIn, calls, result, pre, subs,
                   needed_remainder, token, attempts>>
    /\ UNCHANGED outsidePlace

(***************************************************************************)
(* After the loop: update_tags(instance, role = role_name) for every new   *)
(* instance, and the method returns.                                       *)
(***************************************************************************)
TagRole ==
    /\ ppc = "loop"
    /\ idx > Len(subs)
    /\ roleIn' = [ s \in SubnetNames |-> roleIn[s] + newIn[s] ]
    /\ newIn' = Zero
    /\ ppc' = "idle"
    /\ result' = "created"
    /\ UNCHANGED <<role, otherIn, calls, pre, subs, idx, needed_remainder,
                   token, attempts, nextToken, launched, batches>>
    /\ UNCHANGED outsidePlace

NextPlace ==
    \/ InstanceRole
    \/ LoopPass
    \/ AttemptRefused
    \/ AttemptLost
    \/ AttemptReturns
    \/ TagRole

SpecPlace == InitPlace /\ [][NextPlace]_vars

(***************************************************************************)
(* One invocation of an ensure phase that returns normally.  A phase runs  *)
(* where the pipeline has it: after the phase before it, and again after   *)
(* itself.                                                                 *)
(***************************************************************************)
MayRun(p) ==
    /\ EnsureIndex(p) \in { epos, epos + 1 }
    /\ Len(callsBy[p]) < MaxInvocations

Ran(p, kind, creates, resolves) ==
    /\ epos' = EnsureIndex(p)
    /\ catalog' = [ catalog EXCEPT ![kind] = @ \cup creates \cup resolves ]
    /\ callsBy' = [ callsBy EXCEPT ![p] = Append(@, Cardinality(creates)) ]

EnsureInstanceProfiles ==
    /\ MayRun("instance_profiles")
    /\ Ran("instance_profiles", "instance_profile",
           InstanceProfilesToCreate(ensCfg.instance_roles,
                                    catalog["instance_profile"]), {})
    /\ UNCHANGED ensCfg
    /\ UNCHANGED outsideEns

EnsureRouteTables ==
    /\ MayRun("route_tables")
    /\ Ran("route_tables", "route_table",
           RouteTablesToCreate(ensCfg.route_tables, catalog["route_table"]),
           RouteTablesTagged(ensCfg.route_tables, catalog["route_table"]))
    /\ UNCHANGED ensCfg
    /\ UNCHANGED outsideEns

EnsureSecurityGroups ==
    /\ MayRun("security_groups")
    /\ Ran("security_groups", "security_group",
           SecurityGroupsToCreate(ensCfg.security_groups,
                                  catalog["security_group"]), {})
    /\ UNCHANGED ensCfg
    /\ UNCHANGED outsideEns

\* key_pair_cfg.append('default') changes the list the configuration holds
EnsureKeyPairs ==
    /\ MayRun("key_pairs")
    /\ Ran("key_pairs", "key_pair",
           KeyPairsToCreate(ensCfg.key_pairs, catalog["key_pair"]), {})
    /\ ensCfg' = [ ensCfg EXCEPT !.key_pairs = Append(@, "default") ]
    /\ UNCHANGED outsideEns

EnsureAutoscalingGroups ==
    /\ MayRun("autoscaling_instance_roles")
    /\ Ran("autoscaling_instance_roles", "autoscaling_group",
           AutoscalingGroupsToCreate(ensCfg.instance_roles,
                                     catalog["autoscaling_group"]), {})
    /\ UNCHANGED ensCfg
    /\ UNCHANGED outsideEns

EnsureLoadBalancers ==
    /\ MayRun("load_balancers")
    /\ Ran("load_balancers", "load_balancer",
           LoadBalancersToCreate(ensCfg.load_balancers,
                                 catalog["load_balancer"]), {})
    /\ UNCHANGED ensCfg
    /\ UNCHANGED outsideEns

NextEnsure ==
    \/ EnsureInstanceProfiles
    \/ EnsureRouteTables
    \/ EnsureSecurityGroups
    \/ EnsureKeyPairs
    \/ EnsureAutoscalingGroups
    \/ EnsureLoadBalancers

SpecEnsure == InitEnsure /\ [][NextEnsure]_vars


(***************************************************************************)
(* SpecBarrier: instance_roles, autoscaling_instance_roles, the barrier    *)
(* and finish_instance_roles of one build against an empty environment.    *)
(* The provider makes requested instances, and the instance profile,       *)
(* visible in its own time.                                                *)
(***************************************************************************)
InitBarrier ==
    /\ NoFinish
    /\ NoRoutes
    /\ NoRules
    /\ NoBalancers
    /\ NoScenario
    /\ NoSubnets
    /\ NoTags
    /\ NoPipeline
    /\ NoPlacement
    /\ NoEnsure
    /\ instance_role_cfg \in [ RoleNames -> BarRoleCfgs ]
    /\ roles = NoInstances
    /\ pending = NoInstances
    /\ profileVisible \in BOOLEAN
    /\ bpc = "instance_roles"
    /\ skipped = {}
    /\ seen = NoInstances
    /\ attempt_number = 1
    /\ sleep = 0
    /\ byEngine = NoInstances
    /\ groups = {}

\* the wrapper of a decorated wait sleeps and calls the wait again
CallAgain ==
    /\ sleep' = ExponentialSleep(attempt_number)
    /\ attempt_number' = IF attempt_number < MaxAttempts
                         THEN attempt_number + 1
                         ELSE attempt_number

\* time.sleep returns and the next attempt begins
WakeUp ==
    /\ sleep > 0
    /\ sleep' = 0
    /\ UNCHANGED <<instance_role_cfg, roles, pending, profileVisible, bpc,
                   skipped, seen, attempt_number,
                   byEngine, groups>>
    /\ UNCHANGED outsideBar

\* instance_roles: instance_role for every role of the configuration
BarInstanceRoles ==
    /\ bpc = "instance_roles"
    /\ skipped' = SkippedRoles(instance_role_cfg)
    /\ pending' = [ r \in RoleNames |->
                      pending[r] + RequestedFixed(instance_role_cfg, r) ]
    /\ byEngine' = [ r \in RoleNames |->
                       byEngine[r] + RequestedFixed(instance_role_cfg, r) ]
    /\ bpc' = "autoscaling_instance_roles"
    /\ UNCHANGED <<instance_role_cfg, roles, profileVisible, seen,
                   attempt_number, sleep, groups>>
    /\ UNCHANGED outsideBar

\* wait_for_instance_profile: an attempt that does not find the profile
\* raises Exception
ProfileWaitAttempt ==
    /\ bpc = "autoscaling_instance_roles"
    /\ AwaitsProfile(instance_role_cfg)
    /\ ~profileVisible
    /\ sleep = 0
    /\ IF ShouldReject("unmet") /\ ~ShouldStop
       THEN CallAgain /\ bpc' = bpc
       ELSE bpc' = "handler" /\ UNCHANGED <<attempt_number, sleep>>
    /\ UNCHANGED <<instance_role_cfg, roles, pending, profileVisible, skipped,
                   seen,
                   byEngine, groups>>
    /\ UNCHANGED outsideBar

\* autoscaling_instance_roles returns: every wait for a profile has
\* returned, and every autoscaled role has its group
BarAutoscalingRoles ==
    /\ bpc = "autoscaling_instance_roles"
    /\ AwaitsProfile(instance_role_cfg) => profileVisible
    /\ sleep = 0
    /\ pending' = [ r \in RoleNames |->
                      pending[r] + RequestedAutoscaled(instance_role_cfg, r) ]
    /\ groups' = groups \cup GroupsCreated(instance_role_cfg)
    /\ bpc' = "wait_for_instance_roles_to_exist"
    /\ attempt_number' = 1
    /\ UNCHANGED <<instance_role_cfg, roles, profileVisible, skipped, seen,
                   sleep, byEngine>>
    /\ UNCHANGED outsideBar

\* one attempt of wait_for_instance_roles_to_exist: `roles = self.evpc.roles`
\* and the comparison for every role
BarrierAttempt ==
    /\ bpc = "wait_for_instance_roles_to_exist"
    /\ sleep = 0
    /\ seen' = roles
    /\ IF ~BarrierRaises(instance_role_cfg, roles)
       THEN bpc' = "finish_instance_roles" /\ UNCHANGED <<attempt_number, sleep>>
       ELSE IF ShouldReject("unmet") /\ ~ShouldStop
       THEN CallAgain /\ bpc' = bpc
       ELSE bpc' = "handler" /\ UNCHANGED <<attempt_number, sleep>>
    /\ UNCHANGED <<instance_role_cfg, roles, pending, profileVisible, skipped,
                   byEngine, groups>>
    /\ UNCHANGED outsideBar

\* finish_instance_roles and the phases after it return
BarFinish ==
    /\ bpc = "finish_instance_roles"
    /\ bpc' = "returned"
    /\ UNCHANGED <<instance_role_cfg, roles, pending, profileVisible, skipped,
                   seen, attempt_number, sleep,
                   byEngine, groups>>
    /\ UNCHANGED outsideBar

\* the provider: a requested instance shows up under its role
InstanceVisible ==
    /\ \E r \in RoleNames :
        /\ pending[r] > 0
        /\ pending' = [ pending EXCEPT ![r] = @ - 1 ]
        /\ roles' = [ roles EXCEPT ![r] = @ + 1 ]
    /\ UNCHANGED <<instance_role_cfg, profileVisible, bpc, skipped, seen,
                   attempt_number, sleep,
                   byEngine, groups>>
    /\ UNCHANGED outsideBar

\* the provider: the instance profile shows up
ProfileAppears ==
    /\ ~profileVisible
    /\ profileVisible' = TRUE
    /\ UNCHANGED <<instance_role_cfg, roles, pending, bpc, skipped, seen,
                   attempt_number, sleep,
                   byEngine, groups>>
    /\ UNCHANGED outsideBar

BuilderSteps ==
    \/ BarInstanceRoles
    \/ ProfileWaitAttempt
    \/ BarAutoscalingRoles
    \/ BarrierAttempt
    \/ WakeUp
    \/ BarFinish

ProviderSteps ==
    \/ InstanceVisible
    \/ ProfileAppears

NextBarrier ==
    \/ BarInstanceRoles
    \/ ProfileWaitAttempt
    \/ BarAutoscalingRoles
    \/ BarrierAttempt
    \/ WakeUp
    \/ BarFinish
    \/ InstanceVisible
    \/ ProfileAppears

SpecBarrier == InitBarrier /\ [][NextBarrier]_vars

\* the builder runs on; the provider may never deliver
SpecBarrierFair == SpecBarrier /\ WF_vars(BuilderSteps)

\* the builder runs on, and the provider delivers whatever was requested
SpecBarrierDelivering ==
    SpecBarrier /\ WF_vars(BuilderSteps) /\ WF_vars(ProviderSteps)


(***************************************************************************)
(* SpecTags: the tags phase over the taggable resources.                   *)
(***************************************************************************)
InitTags ==
    /\ NoFinish
    /\ NoRoutes
    /\ NoRules
    /\ NoBalancers
    /\ NoScenario
    /\ NoSubnets
    /\ NoPipeline
    /\ NoPlacement
    /\ NoEnsure
    /\ NoBarrier
    /\ tag_cfg \in TagCfgs
    /\ resourceTags = TagsBefore
    /\ safe_tags = NoTagsAt
    /\ todo = << >>
    /\ tpc = "idle"
    /\ applied = [ r \in DOMAIN TagsBefore |-> {} ]

\* tags() up to its second loop
TagsBegin ==
    /\ tpc = "idle"
    /\ safe_tags' = SafeTags(tag_cfg)
    /\ todo' = TaggableResources
    /\ tpc' = "loop"
    /\ UNCHANGED <<tag_cfg, resourceTags, applied>>
    /\ UNCHANGED outsideTags

\* one pass of `for resource in taggable_resources:`
TagResource ==
    /\ tpc = "loop"
    /\ todo # << >>
    /\ LET resource == Head(todo)
       IN IF Present(safe_tags) # {}
          THEN /\ resourceTags' =
                     [ resourceTags EXCEPT
                         ![resource] = UpdateTags(@, safe_tags) ]
               /\ applied' =
                     [ applied EXCEPT ![resource] = @ \cup Present(safe_tags) ]
          ELSE UNCHANGED <<resourceTags, applied>>
    /\ todo' = Tail(todo)
    /\ UNCHANGED <<tag_cfg, safe_tags, tpc>>
    /\ UNCHANGED outsideTags

\* update_tags raises: the phase raises
TagResourceRaises ==
    /\ tpc = "loop"
    /\ todo # << >>
    /\ Present(safe_tags) # {}
    /\ tpc' = "raised"
    /\ UNCHANGED <<tag_cfg, resourceTags, safe_tags, todo, applied>>
    /\ UNCHANGED outsideTags

\* the loop is over: the phase returns
TagsReturn ==
    /\ tpc = "loop"
    /\ todo = << >>
    /\ tpc' = "done"
    /\ UNCHANGED <<tag_cfg, resourceTags, safe_tags, todo, applied>>
    /\ UNCHANGED outsideTags

NextTags ==
    \/ TagsBegin
    \/ TagResource
    \/ TagResourceRaises
    \/ TagsReturn

SpecTags == InitTags /\ [][NextTags]_vars


(***************************************************************************)
(* SpecSubnets: the subnets phase for one network block.                   *)
(***************************************************************************)
InitSubnets ==
    /\ NoFinish
    /\ NoRoutes
    /\ NoRules
    /\ NoBalancers
    /\ NoScenario
    /\ NoPipeline
    /\ NoPlacement
    /\ NoEnsure
    /\ NoBarrier
    /\ NoTags
    /\ subnet_cfg \in SubnetCfgs
    /\ cidr_block \in VpcCidrs
    /\ cidrsBySize = << >>
    /\ remaining = << >>
    /\ createdSubnets = << >>
    /\ spc = "idle"
    /\ handedOut = << >>
    /\ suberr = "none"

\* subnets() up to `for sn_name in sorted(subnet_cfg):`; `items` is the
\* order in which subnet_cfg hands out its entries
SubnetsBegin ==
    /\ spc = "idle"
    /\ \E items \in Orders(DOMAIN subnet_cfg) :
        LET sizes == Sorted([ i \in 1..Len(items) |-> subnet_cfg[items[i]].size ],
                            [ size \in 0..32 |-> size ])
            cidrs == allocate(cidr_block, sizes)
        IN /\ IF cidrs.raised # "none"
              THEN /\ spc' = "raised"
                   /\ suberr' = cidrs.raised
                   /\ UNCHANGED <<cidrsBySize, remaining>>
              ELSE /\ cidrsBySize' = GroupBySize(sizes, cidrs.blocks)
                   /\ remaining' = SortedNames(items)
                   /\ spc' = "loop"
                   /\ suberr' = suberr
           /\ handedOut' = items
    /\ UNCHANGED <<subnet_cfg, cidr_block, createdSubnets>>
    /\ UNCHANGED outsideSub

\* one pass of the loop: the zone, the block popped from the subnet's size
\* class, and create_subnet
CreateSubnet ==
    /\ spc = "loop"
    /\ remaining # << >>
    /\ LET sn_name == Head(remaining)
           sn == subnet_cfg[sn_name]
           az_letter == sn.availability_zone
           az_index == NameNumber(sn_name) - 1
       IN IF az_letter = "none" /\ az_index >= Len(azones)
          THEN /\ spc' = "raised"
               /\ suberr' = "IndexError"
               /\ UNCHANGED <<cidrsBySize, remaining, createdSubnets>>
          ELSE LET az_name == IF az_letter # "none"
                              THEN <<region_name, az_letter>>
                              ELSE azones[az_index + 1]
                   cidr == Head(cidrsBySize[sn.size])
               IN /\ cidrsBySize' = [ cidrsBySize EXCEPT ![sn.size] = Tail(@) ]
                  /\ createdSubnets' = Append(createdSubnets,
                         [ name |-> sn_name, CidrBlock |-> FormatCidr(cidr),
                           AvailabilityZone |-> az_name ])
                  /\ remaining' = Tail(remaining)
                  /\ UNCHANGED <<spc, suberr>>
    /\ UNCHANGED <<subnet_cfg, cidr_block, handedOut>>
    /\ UNCHANGED outsideSub

\* create_subnet, or the tagging after it, raises
CreateSubnetRaises ==
    /\ spc = "loop"
    /\ remaining # << >>
    /\ LET sn_name == Head(remaining)
           sn == subnet_cfg[sn_name]
       IN /\ ~(sn.availability_zone = "none"
                /\ NameNumber(sn_name) - 1 >= Len(azones))
          /\ \E took \in BOOLEAN :
                createdSubnets' =
                    IF took
                    THEN Append(createdSubnets,
                           [ name |-> sn_name,
                             CidrBlock |-> FormatCidr(Head(cidrsBySize[sn.size])),
                             AvailabilityZone |->
                                 IF sn.availability_zone # "none"
                                 THEN <<region_name, sn.availability_zone>>
                                 ELSE azones[NameNumber(sn_name)] ])
                    ELSE createdSubnets
    /\ spc' = "raised"
    /\ suberr' = "ProviderError"
    /\ UNCHANGED <<subnet_cfg, cidr_block, cidrsBySize, remaining, handedOut>>
    /\ UNCHANGED outsideSub

\* the loop is over: the phase returns
SubnetsReturn ==
    /\ spc = "loop"
    /\ remaining = << >>
    /\ spc' = "done"
    /\ UNCHANGED <<subnet_cfg, cidr_block, cidrsBySize, remaining,
                   createdSubnets, handedOut, suberr>>
    /\ UNCHANGED outsideSub

NextSubnets ==
    \/ SubnetsBegin
    \/ CreateSubnet
    \/ CreateSubnetRaises
    \/ SubnetsReturn

SpecSubnets == InitSubnets /\ [][NextSubnets]_vars

(***************************************************************************)
(* Helpers of the actions.                                                 *)
(***************************************************************************)
\* control moves to the step after s, or apply_all returns normally
Advance(s) ==
    LET n == NextStep(s) IN
    IF n = "return"
    THEN /\ pc' = "idle"
         /\ outcome' = "returned"
         /\ started' = started
    ELSE /\ pc' = n
         /\ outcome' = outcome
         /\ started' = IF n \in Plumbing THEN started ELSE Append(started, n)

\* the step at pc raises: control enters the except clause of apply_all
Raise(s) ==
    /\ pc' = "handler"
    /\ err' = s
    /\ UNCHANGED <<started, outcome>>

(***************************************************************************)
(* EnvironmentBuilder.__init__: a new builder for the same vpc_name.       *)
(***************************************************************************)
NewBuilder ==
    /\ pc = "idle"
    /\ run > 0
    /\ run < MaxRuns
    /\ cfg' \in Configs
    /\ evpc' = NoEvpc
    /\ UNCHANGED <<pc, run, started, err, outcome, delivered, terminated,
                   created, dupCalls, absorbed, lockFailed, resources, named>>
    /\ UNCHANGED outsidePipe

(***************************************************************************)
(* apply_all is called: the try block enters _apply_all.                   *)
(***************************************************************************)
ApplyAll ==
    /\ pc = "idle"
    /\ run < MaxRuns
    /\ run' = run + 1
    /\ pc' = "amis"
    /\ started' = << >>
    /\ err' = "none"
    /\ outcome' = "none"
    /\ delivered' = "none"
    /\ terminated' = FALSE
    /\ created' = {}
    /\ dupCalls' = {}
    /\ absorbed' = "none"
    /\ lockFailed' = FALSE
    /\ UNCHANGED <<cfg, evpc, resources, named>>
    /\ UNCHANGED outsidePipe

(***************************************************************************)
(* self.amis = config['amis']: a KeyError when the key is missing.         *)
(***************************************************************************)
Amis ==
    /\ pc = "amis"
    /\ IF cfg.amis
       THEN Advance("amis") /\ err' = err
       ELSE Raise("amis")
    /\ UNCHANGED <<cfg, evpc, run, delivered, terminated, created, dupCalls,
                   absorbed, lockFailed, resources, named>>
    /\ UNCHANGED outsidePipe

(***************************************************************************)
(* build_vpc: create_vpc, then the Name tag, then two modify_attribute     *)
(* calls.  No lookup precedes create_vpc.  `upto` is how far the body got: *)
(* 0 create_vpc raised, 1 the tagging raised, 2 modify_attribute raised,   *)
(* 3 the body returned.                                                    *)
(***************************************************************************)
BuildVpc ==
    /\ pc = "build_vpc"
    /\ \E upto \in 0..3 :
        /\ resources' = IF upto >= 1
                        THEN resources \cup { <<run, "build_vpc">> }
                        ELSE resources
        /\ created' = IF upto >= 1
                      THEN created \cup { <<run, "build_vpc">> }
                      ELSE created
        /\ named' = IF upto >= 2 THEN named \cup {run} ELSE named
        /\ dupCalls' = IF NamedVpcs # {}
                       THEN dupCalls \cup {"build_vpc"}
                       ELSE dupCalls
        /\ IF upto = 3
           THEN Advance("build_vpc") /\ err' = err
           ELSE Raise("build_vpc")
    /\ UNCHANGED <<cfg, evpc, run, delivered, terminated, absorbed,
                   lockFailed>>
    /\ UNCHANGED outsidePipe

(***************************************************************************)
(* self.evpc = EnrichedVPC(vpc_name, ...): the handle connects to the VPC  *)
(* the name resolves to.  When the name resolves to several VPCs the       *)
(* outcome is not fixed by the builder: the constructor raises, or the     *)
(* handle is connected to one of them.                                     *)
(***************************************************************************)
Connect ==
    /\ pc = "EnrichedVPC"
    /\ \/ /\ \E v \in NamedVpcs : evpc' = v
          /\ Advance("EnrichedVPC")
          /\ err' = err
       \/ /\ Cardinality(NamedVpcs) # 1
          /\ evpc' = evpc
          /\ Raise("EnrichedVPC")
    /\ UNCHANGED <<cfg, run, delivered, terminated, created, dupCalls,
                   absorbed, lockFailed, resources, named>>
    /\ UNCHANGED outsidePipe

(***************************************************************************)
(* A phase after the attachment of self.evpc returns normally.  A creating *)
(* phase that looks its resource up first creates it only when absent; the *)
(* others issue their creation call whatever the catalog holds.            *)
(***************************************************************************)
PhaseReturns(s) ==
    /\ pc = s
    /\ s \notin Plumbing
    /\ s # "build_vpc"
    /\ s # "finish_instance_roles"
    /\ LET r == <<evpc, s>>
           issues == s \in Creating /\ (s \in LooksUpFirst => r \notin resources)
       IN /\ resources' = IF issues THEN resources \cup {r} ELSE resources
          /\ created' = IF issues /\ r \notin resources
                        THEN created \cup {r} ELSE created
          /\ dupCalls' = IF issues /\ r \in resources
                         THEN dupCalls \cup {s} ELSE dupCalls
    /\ Advance(s)
    /\ absorbed' = "none"
    /\ UNCHANGED <<cfg, evpc, run, err, delivered, terminated, lockFailed,
                   named>>
    /\ UNCHANGED outsidePipe

(***************************************************************************)
(* An attempt of the decorated method of phase s ends in an exception.     *)
(* The wrapper sleeps and calls the method again unless the exception is   *)
(* let through or the attempt is the last one.                             *)
(***************************************************************************)
WrappedCallRaises(s) ==
    /\ pc = s
    /\ s \in DOMAIN Wrapped
    /\ \E exc \in Raises(Wrapped[s]) :
        IF ShouldReject(exc) /\ ~ShouldStop
        THEN /\ absorbed' = exc
             /\ UNCHANGED <<pc, err, started, outcome>>
        ELSE /\ absorbed' = absorbed
             /\ Raise(s)
    /\ UNCHANGED <<cfg, evpc, run, delivered, terminated, created, dupCalls,
                   lockFailed, resources, named>>
    /\ UNCHANGED outsidePipe

(***************************************************************************)
(* finish_instance_roles returns: the per-instance steps are done, and the *)
(* lock call at the end returned or raised.                                *)
(***************************************************************************)
FinishInstanceRoles ==
    /\ pc = "finish_instance_roles"
    /\ \E lock_raised \in BOOLEAN :
        /\ lockFailed' = lock_raised
        /\ IF AfterLock(lock_raised) = "return"
           THEN Advance("finish_instance_roles") /\ err' = err
           ELSE Raise("finish_instance_roles")
    /\ absorbed' = "none"
    /\ UNCHANGED <<cfg, evpc, run, delivered, terminated, created, dupCalls,
                   resources, named>>
    /\ UNCHANGED outsidePipe

(***************************************************************************)
(* A phase after the attachment of self.evpc raises, before or after its   *)
(* creation call took effect.                                              *)
(***************************************************************************)
PhaseRaises(s) ==
    /\ pc = s
    /\ s # "build_vpc"
    /\ CanRaise(s)
    /\ \E took \in BOOLEAN :
        LET r == <<evpc, s>>
            issues == /\ took
                     /\ s \in Creating
                     /\ (s \in LooksUpFirst => r \notin resources)
        IN /\ resources' = IF issues THEN resources \cup {r} ELSE resources
           /\ created' = IF issues /\ r \notin resources
                         THEN created \cup {r} ELSE created
           /\ dupCalls' = IF issues /\ r \in resources
                          THEN dupCalls \cup {s} ELSE dupCalls
    /\ Raise(s)
    /\ UNCHANGED <<cfg, evpc, run, delivered, terminated, absorbed,
                   lockFailed, named>>
    /\ UNCHANGED outsidePipe

(***************************************************************************)
(* except Exception as e: ... self.evpc.terminate(); raise                 *)
(* With self.evpc unbound the attribute read raises AttributeError, which  *)
(* leaves the handler in place of e and before terminate is invoked.       *)
(* terminate on a handle whose VPC is gone either does nothing or raises.  *)
(***************************************************************************)
Handler ==
    /\ pc = "handler"
    /\ IF evpc = NoEvpc
       THEN /\ delivered' = "AttributeError"
            /\ UNCHANGED <<terminated, resources>>
       ELSE /\ terminated' = TRUE
            /\ resources' = Terminate(evpc)
            /\ IF evpc \in LiveVpcs
               THEN delivered' = err
               ELSE delivered' \in { err, "TerminateError" }
    /\ pc' = "idle"
    /\ outcome' = "raised"
    /\ UNCHANGED <<cfg, evpc, run, started, err, created, dupCalls, absorbed,
                   lockFailed, named>>
    /\ UNCHANGED outsidePipe

Next ==
    \/ NewBuilder
    \/ ApplyAll
    \/ Amis
    \/ BuildVpc
    \/ Connect
    \/ \E s \in Phases : PhaseReturns(s)
    \/ \E s \in Phases : PhaseRaises(s)
    \/ \E s \in Phases : WrappedCallRaises(s)
    \/ FinishInstanceRoles
    \/ Handler

Spec == Init /\ [][Next]_vars


(***************************************************************************)
(* SpecScenario: one apply_all against an empty account, for a             *)
(* configuration with the network 10.0.0.0/16, two subnets of size 24 and  *)
(* one role of two instances on those subnets.  The pipeline is that of    *)
(* Spec; the subnets phase and the instance_roles phase run as in          *)
(* SpecSubnets and SpecPlace, and the barrier and finish_instance_roles    *)
(* work on the instances one by one.                                       *)
(***************************************************************************)
InitScenario ==
    /\ NoFinish
    /\ NoRoutes
    /\ NoRules
    /\ NoBalancers
    /\ InitPipe
    /\ cfg = [ amis |-> TRUE, private_zone |-> FALSE, vpn_gateway |-> FALSE ]
    /\ NoEnsure
    /\ NoBarrier
    /\ NoTags
    /\ NoScenario
    /\ subnet_cfg \in [ { <<"net", 1>>, <<"net", 2>> } ->
                        [ size : {24}, availability_zone : { "none", "c" } ] ]
    /\ cidr_block = <<10, 0, 0, 0, 16>>
    /\ cidrsBySize = << >>
    /\ remaining = << >>
    /\ createdSubnets = << >>
    /\ spc = "idle"
    /\ handedOut = << >>
    /\ suberr = "none"
    /\ role \in [ count : {2}, autoscaling : {FALSE},
                  subnets : { << "a", "b" >>, << "b", "a" >> } ]
    /\ roleIn = Zero
    /\ otherIn = Zero
    /\ newIn = Zero
    /\ ppc = "idle"
    /\ calls = 0
    /\ result = "none"
    /\ pre = [ roleIn |-> Zero, otherIn |-> Zero ]
    /\ subs = << >>
    /\ idx = 0
    /\ needed_remainder = 0
    /\ token = 0
    /\ attempts = 0
    /\ nextToken = 1
    /\ launched = {}
    /\ batches = << >>

\* the subnets the role names exist
RoleSubnetsCreated ==
    \A n \in Range(role.subnets) :
        \E i \in DOMAIN createdSubnets : createdSubnets[i].name = ConfiguredAs[n]

\* what a phase has done when it returns
PhaseOver(s) ==
    /\ s = "subnets" => spc = "done"
    /\ s = "instance_roles" => (ppc = "idle" /\ calls = 1)
    /\ s = "wait_for_instance_roles_to_exist" =>
           ~Unmet(role.count, Cardinality(seenInstances))

\* apply_all and the phases of _apply_all
ScenarioPipeline ==
    \/ run = 0 /\ ApplyAll
    \/ Amis
    \/ BuildVpc
    \/ Connect
    \/ \E s \in Phases : PhaseOver(s) /\ PhaseReturns(s)
    \/ \E s \in Phases : PhaseRaises(s)
    \/ \E s \in Phases : WrappedCallRaises(s)
    \/ Handler

\* self.subnets(config.get('subnets', no_cfg))
ScenarioSubnets == pc = "subnets" /\ NextSubnets

\* self.instance_roles(...): instance_role for the one role
ScenarioInstanceRoles ==
    /\ pc = "instance_roles"
    /\ \/ calls = 0 /\ RoleSubnetsCreated /\ InstanceRole
       \/ LoopPass
       \/ AttemptRefused
       \/ AttemptLost
       \/ AttemptReturns
       \/ TagRole

\* the provider's listings come to show an instance that carries the role tag
ScenarioInstanceVisible ==
    /\ \E instance \in RoleTagged \ seenInstances :
           seenInstances' = seenInstances \cup {instance}
    /\ UNCHANGED <<finishInstances, fidx, nameTags, locking, fpc>>
    /\ UNCHANGED outsideScn

\* instances = self.evpc.get_instances(instances), with instances = None:
\* every instance of the environment, in the order of the listing
FinishBegin ==
    /\ pc = "finish_instance_roles"
    /\ fpc = "idle"
    /\ finishInstances' \in Orders(seenInstances)
    /\ fidx' = 1
    /\ fpc' = "loop"
    /\ UNCHANGED <<seenInstances, nameTags, locking>>
    /\ UNCHANGED outsideScn

\* one pass of `for instance in instances:`, tag_instance_name returning
FinishInstance ==
    /\ pc = "finish_instance_roles"
    /\ fpc = "loop"
    /\ fidx <= Len(finishInstances)
    /\ LET instance == finishInstances[fidx]
           hostname == Hostname(vpc_name, role_name, instance)
       IN nameTags' = (instance :> hostname) @@ nameTags
    /\ fidx' = fidx + 1
    /\ UNCHANGED <<seenInstances, finishInstances, locking, fpc>>
    /\ UNCHANGED outsideScn

\* self.evpc.lock_instances(self.evpc.get_normal_instances(instances))
LockInstances ==
    /\ pc = "finish_instance_roles"
    /\ fpc = "loop"
    /\ fidx > Len(finishInstances)
    /\ locking' = [ called |-> TRUE,
                    instances |-> get_normal_instances(finishInstances) ]
    /\ fpc' = "lock"
    /\ UNCHANGED <<seenInstances, finishInstances, fidx, nameTags>>
    /\ UNCHANGED outsideScn

\* the lock call returns or raises, and finish_instance_roles returns
ScenarioFinishReturns == fpc = "lock" /\ FinishInstanceRoles

NextScenario ==
    \/ ScenarioPipeline
    \/ ScenarioSubnets
    \/ ScenarioInstanceRoles
    \/ ScenarioInstanceVisible
    \/ FinishBegin
    \/ FinishInstance
    \/ LockInstances
    \/ ScenarioFinishReturns

SpecScenario == InitScenario /\ [][NextScenario]_vars


(***************************************************************************)
(* SpecBalancers: the load_balancers phase, for an environment that holds  *)
(* some of the configured load balancers and the groups of some roles.     *)
(***************************************************************************)
InitBalancers ==
    /\ NoFinish
    /\ NoRoutes
    /\ NoRules
    /\ NoPipeline
    /\ NoPlacement
    /\ NoEnsure
    /\ NoBarrier
    /\ NoTags
    /\ NoSubnets
    /\ NoScenario
    /\ elbCfg \in BalancerCfgs
    /\ existing_elb_names = {}
    /\ elbNames \in SUBSET BalancerNames
    /\ asgRoles \in SUBSET BoundRoles
    /\ elbTodo = << >>
    /\ elbCalls = << >>
    /\ lbpc = "idle"

\* existing_elb_names = self.evpc.elb.get_related_elb_names(), and the loop
\* starts over load_balancer_cfg.items()
BalancersBegin ==
    /\ lbpc = "idle"
    /\ existing_elb_names' = elbNames
    /\ elbTodo' \in Orders(DOMAIN elbCfg)
    /\ lbpc' = "test"
    /\ UNCHANGED <<elbCfg, elbNames, asgRoles, elbCalls>>
    /\ UNCHANGED outsideElb

\* the top of a pass: `continue` for a name that exists, else
\* create_load_balancer
BalancerCreate ==
    /\ lbpc = "test"
    /\ elbTodo # << >>
    /\ LET lb_name == Head(elbTodo)
       IN IF lb_name \in LoadBalancersToCreate(elbCfg, existing_elb_names)
          THEN /\ elbCalls' = Append(elbCalls, <<"create_load_balancer", lb_name>>)
               /\ elbNames' = elbNames \cup {lb_name}
               /\ lbpc' = "health"
               /\ elbTodo' = elbTodo
          ELSE /\ elbTodo' = Tail(elbTodo)
               /\ UNCHANGED <<elbCalls, elbNames, lbpc>>
    /\ UNCHANGED <<elbCfg, existing_elb_names, asgRoles>>
    /\ UNCHANGED outsideElb

\* configure_health_check for the load balancer just created
BalancerHealthCheck ==
    /\ lbpc = "health"
    /\ elbCalls' = Append(elbCalls, <<"configure_health_check", Head(elbTodo)>>)
    /\ lbpc' = "bind"
    /\ UNCHANGED <<elbCfg, existing_elb_names, elbNames, asgRoles, elbTodo>>
    /\ UNCHANGED outsideElb

\* the end of a pass: the load balancer is attached to the group of its
\* role, or the role is registered with it
BalancerBind ==
    /\ lbpc = "bind"
    /\ LET lb_name == Head(elbTodo)
       IN elbCalls' = Append(elbCalls,
                         <<Binding(elbCfg[lb_name], asgRoles), lb_name>>)
    /\ elbTodo' = Tail(elbTodo)
    /\ lbpc' = "test"
    /\ UNCHANGED <<elbCfg, existing_elb_names, elbNames, asgRoles>>
    /\ UNCHANGED outsideElb

\* a provider call of the pass raises and the phase with it
BalancerCallRaises ==
    /\ \/ lbpc \in { "health", "bind" }
       \/ /\ lbpc = "test"
          /\ elbTodo # << >>
          /\ Head(elbTodo) \in LoadBalancersToCreate(elbCfg, existing_elb_names)
    /\ lbpc' = "raised"
    /\ UNCHANGED <<elbCfg, existing_elb_names, elbNames, asgRoles, elbTodo,
                   elbCalls>>
    /\ UNCHANGED outsideElb

\* the loop is over: the phase returns
BalancersReturn ==
    /\ lbpc = "test"
    /\ elbTodo = << >>
    /\ lbpc' = "done"
    /\ UNCHANGED <<elbCfg, existing_elb_names, elbNames, asgRoles, elbTodo,
                   elbCalls>>
    /\ UNCHANGED outsideElb

NextBalancers ==
    \/ BalancersBegin
    \/ BalancerCreate
    \/ BalancerHealthCheck
    \/ BalancerBind
    \/ BalancerCallRaises
    \/ BalancersReturn

SpecBalancers == InitBalancers /\ [][NextBalancers]_vars


(***************************************************************************)
(* SpecRules: security_groups, and later in the same build                 *)
(* security_group_rules, for an environment that holds some of the         *)
(* configured groups.                                                      *)
(***************************************************************************)
InitRules ==
    /\ NoFinish
    /\ NoRoutes
    /\ NoPipeline
    /\ NoPlacement
    /\ NoEnsure
    /\ NoBarrier
    /\ NoTags
    /\ NoSubnets
    /\ NoScenario
    /\ NoBalancers
    /\ sgCfg \in SecurityGroupRuleCfgs
    /\ sgGroups \in SUBSET SecurityGroupNames
    /\ sgTodo = << >>
    /\ sgCalls = << >>
    /\ rpc = "idle"

\* security_groups: every configured group that is not found is created
RulesSecurityGroups ==
    /\ rpc = "idle"
    /\ sgGroups' = sgGroups \cup SecurityGroupsToCreate(DOMAIN sgCfg, sgGroups)
    /\ rpc' = "between"
    /\ UNCHANGED <<sgCfg, sgTodo, sgCalls>>
    /\ UNCHANGED outsideSg

\* security_group_rules calls security_group_inbound_rules
InboundBegin ==
    /\ rpc = "between"
    /\ sgTodo' \in Orders(DOMAIN sgCfg)
    /\ rpc' = "inbound"
    /\ UNCHANGED <<sgCfg, sgGroups, sgCalls>>
    /\ UNCHANGED outsideSg

\* one pass of the loop of security_group_inbound_rules
InboundPass ==
    /\ rpc = "inbound"
    /\ sgTodo # << >>
    /\ LET sg_name == Head(sgTodo)
           permissions == Permissions(sgCfg[sg_name], "inbound")
       IN IF ~Issued(permissions)
          THEN /\ sgTodo' = Tail(sgTodo)
               /\ UNCHANGED <<sgCalls, rpc>>
          ELSE IF sg_name \notin sgGroups
          THEN /\ rpc' = "AttributeError"
               /\ UNCHANGED <<sgCalls, sgTodo>>
          ELSE /\ sgCalls' = Append(sgCalls, <<"authorize_ingress", sg_name>>)
               /\ sgTodo' = Tail(sgTodo)
               /\ rpc' = rpc
    /\ UNCHANGED <<sgCfg, sgGroups>>
    /\ UNCHANGED outsideSg

\* security_group_inbound_rules returns and security_group_outbound_rules
\* begins
OutboundBegin ==
    /\ rpc = "inbound"
    /\ sgTodo = << >>
    /\ sgTodo' \in Orders(DOMAIN sgCfg)
    /\ rpc' = "outbound"
    /\ UNCHANGED <<sgCfg, sgGroups, sgCalls>>
    /\ UNCHANGED outsideSg

\* one pass of the loop of security_group_outbound_rules up to
\* security_group_outbound_revoke_default_rule
OutboundRevoke ==
    /\ rpc = "outbound"
    /\ sgTodo # << >>
    /\ LET sg_name == Head(sgTodo)
           permissions == Permissions(sgCfg[sg_name], "outbound")
       IN IF ~Issued(permissions)
          THEN /\ sgTodo' = Tail(sgTodo)
               /\ UNCHANGED <<sgCalls, rpc>>
          ELSE IF sg_name \notin sgGroups
          THEN /\ rpc' = "AttributeError"
               /\ UNCHANGED <<sgCalls, sgTodo>>
          ELSE /\ sgCalls' = Append(sgCalls, <<"revoke_egress", sg_name>>)
               /\ rpc' = "egress"
               /\ sgTodo' = sgTodo
    /\ UNCHANGED <<sgCfg, sgGroups>>
    /\ UNCHANGED outsideSg

\* the rest of the pass: sg.authorize_egress(IpPermissions = permissions)
OutboundAuthorize ==
    /\ rpc = "egress"
    /\ sgCalls' = Append(sgCalls, <<"authorize_egress", Head(sgTodo)>>)
    /\ sgTodo' = Tail(sgTodo)
    /\ rpc' = "outbound"
    /\ UNCHANGED <<sgCfg, sgGroups>>
    /\ UNCHANGED outsideSg

\* a call on a group raises and the phase with it
RulesCallRaises ==
    /\ \/ rpc = "egress"
       \/ /\ rpc \in { "inbound", "outbound" }
          /\ sgTodo # << >>
          /\ Issued(Permissions(sgCfg[Head(sgTodo)], rpc))
          /\ Head(sgTodo) \in sgGroups
    /\ rpc' = "raised"
    /\ UNCHANGED <<sgCfg, sgGroups, sgTodo, sgCalls>>
    /\ UNCHANGED outsideSg

\* security_group_outbound_rules returns, and security_group_rules with it
RulesReturn ==
    /\ rpc = "outbound"
    /\ sgTodo = << >>
    /\ rpc' = "done"
    /\ UNCHANGED <<sgCfg, sgGroups, sgTodo, sgCalls>>
    /\ UNCHANGED outsideSg

NextRules ==
    \/ RulesSecurityGroups
    \/ InboundBegin
    \/ InboundPass
    \/ OutboundBegin
    \/ OutboundRevoke
    \/ OutboundAuthorize
    \/ RulesCallRaises
    \/ RulesReturn

SpecRules == InitRules /\ [][NextRules]_vars


(***************************************************************************)
(* SpecRoutes: route_table_rules for one route of one route table whose    *)
(* target is an instance role.                                             *)
(***************************************************************************)
InitRoutes ==
    /\ NoFinish
    /\ NoPipeline
    /\ NoPlacement
    /\ NoEnsure
    /\ NoBarrier
    /\ NoTags
    /\ NoSubnets
    /\ NoScenario
    /\ NoBalancers
    /\ NoRules
    /\ rtZones \in SUBSET ZoneLetters
    /\ targets \in TargetLists
    /\ nat_instance = 0
    /\ unchecked = {}
    /\ routeCalls = << >>
    /\ npc = "idle"

\* the else branch up to the end of the for loop: choice(instances), which
\* raises IndexError for an empty list, and the correlation of the zones
RouteChoose ==
    /\ npc = "idle"
    /\ IF targets = << >>
       THEN /\ npc' = "raised"
            /\ nat_instance' = nat_instance
       ELSE /\ \E picked \in DOMAIN targets :
                nat_instance' = Correlated(targets, rtZones, picked)
            /\ npc' = "chosen"
    /\ UNCHANGED <<rtZones, targets, unchecked, routeCalls>>
    /\ UNCHANGED outsideRoute

\* nat_instance.source_dest_check_disable()
RouteDisableCheck ==
    /\ npc = "chosen"
    /\ unchecked' = unchecked \cup {nat_instance}
    /\ routeCalls' = Append(routeCalls, <<"source_dest_check_disable", nat_instance>>)
    /\ npc' = "disabled"
    /\ UNCHANGED <<rtZones, targets, nat_instance>>
    /\ UNCHANGED outsideRoute

\* route_table.create_route(..., InstanceId = nat_instance.id)
RouteCreate ==
    /\ npc = "disabled"
    /\ routeCalls' = Append(routeCalls, <<"create_route", nat_instance>>)
    /\ npc' = "done"
    /\ UNCHANGED <<rtZones, targets, nat_instance, unchecked>>
    /\ UNCHANGED outsideRoute

\* one of the two calls raises
RouteCallRaises ==
    /\ npc \in { "chosen", "disabled" }
    /\ npc' = "raised"
    /\ UNCHANGED <<rtZones, targets, nat_instance, unchecked, routeCalls>>
    /\ UNCHANGED outsideRoute

NextRoutes ==
    \/ RouteChoose
    \/ RouteDisableCheck
    \/ RouteCreate
    \/ RouteCallRaises

SpecRoutes == InitRoutes /\ [][NextRoutes]_vars


(***************************************************************************)
(* SpecFinish: finish_instance_roles over the instances of the             *)
(* environment, fixed and autoscaled.                                      *)
(***************************************************************************)
InitFinish ==
    /\ NoPipeline
    /\ NoPlacement
    /\ NoEnsure
    /\ NoBarrier
    /\ NoTags
    /\ NoSubnets
    /\ NoScenario
    /\ NoBalancers
    /\ NoRules
    /\ NoRoutes
    /\ finishCfg \in FinishCfgs
    /\ running \in RunningLists
    /\ finishPos = 0
    /\ finishCalls = << >>
    /\ lockCalls = << >>
    /\ qpc = "idle"

\* instances = self.evpc.get_instances(instances), and the loop starts
FinishingBegin ==
    /\ qpc = "idle"
    /\ finishPos' = 1
    /\ qpc' = "loop"
    /\ UNCHANGED <<finishCfg, running, finishCalls, lockCalls>>
    /\ UNCHANGED outsideFin

\* one pass of the loop, every call of it returning
FinishingPass ==
    /\ qpc = "loop"
    /\ finishPos <= Len(running)
    /\ LET made == PassCalls(finishCfg, running[finishPos])
       IN finishCalls' = finishCalls \o
                         [ k \in 1..Len(made) |-> <<made[k], finishPos>> ]
    /\ finishPos' = finishPos + 1
    /\ UNCHANGED <<finishCfg, running, lockCalls, qpc>>
    /\ UNCHANGED outsideFin

\* one pass of the loop of which a call raises: the calls before it were
\* made, and the method raises
FinishingPassRaises ==
    /\ qpc = "loop"
    /\ finishPos <= Len(running)
    /\ LET made == PassCalls(finishCfg, running[finishPos])
       IN \E n \in 0..(Len(made) - 1) :
            finishCalls' = finishCalls \o
                           [ k \in 1..n |-> <<made[k], finishPos>> ]
    /\ qpc' = "raised"
    /\ UNCHANGED <<finishCfg, running, finishPos, lockCalls>>
    /\ UNCHANGED outsideFin

\* after the loop: lock_instances(get_normal_instances(instances)) inside
\* try/except, and the method returns whether the call raised or not
FinishingLock ==
    /\ qpc = "loop"
    /\ finishPos > Len(running)
    /\ lockCalls' = Append(lockCalls, NormalInstances(running))
    /\ \E lock_raised \in BOOLEAN :
        qpc' = IF AfterLock(lock_raised) = "return" THEN "done" ELSE "raised"
    /\ UNCHANGED <<finishCfg, running, finishPos, finishCalls>>
    /\ UNCHANGED outsideFin

NextFinish ==
    \/ FinishingBegin
    \/ FinishingPass
    \/ FinishingPassRaises
    \/ FinishingLock

SpecFinish == InitFinish /\ [][NextFinish]_vars

TypeOK ==
    /\ cfg \in Configs
    /\ evpc \in 0..MaxRuns
    /\ pc \in StepSet \cup { "idle", "handler" }
    /\ run \in 0..MaxRuns
    /\ outcome \in { "none", "returned", "raised" }
    /\ terminated \in BOOLEAN

(***************************************************************************)
(* Properties of apply_all (Spec).                                         *)
(***************************************************************************)
\* C1: when a phase of the pipeline raises, terminate is invoked before
\* apply_all hands the error to its caller, and once apply_all has raised no
\* resource created by that invocation exists any more.
C1_TeardownBeforeRaise ==
    (outcome = "raised" /\ err \in Phases) =>
        /\ terminated
        /\ created \cap resources = {}

\* C2: the error apply_all delivers is the error the failing phase raised,
\* whichever phase that was.
C2_SameErrorDelivered ==
    (outcome = "raised" /\ err \in Phases) => delivered = err

\* the order of the phases as the specification lists it
ClaimedOrder ==
    << "build_vpc", "build_internet_gateway", "attach_vpn_gateway",
       "dhcp_options", "instance_profiles", "route_tables", "subnets",
       "security_groups", "key_pairs",
       "associate_route_tables_with_subnets", "db_instances",
       "instance_roles", "autoscaling_instance_roles", "endpoints",
       "security_group_rules", "load_balancers",
       "wait_for_instance_roles_to_exist", "finish_instance_roles",
       "route_table_rules", "private_zone", "tags" >>

ClaimedOrderNoZone == SelectSeq(ClaimedOrder, LAMBDA s : s # "private_zone")

IsPrefix(p, q) == Len(p) <= Len(q) /\ SubSeq(q, 1, Len(p)) = p

\* C3: in every invocation the phases start in the listed order, the private
\* zone phase being optional, and the phase in execution is the one started
\* last: a phase starts only after the one before it returned.
C3_PhaseOrder ==
    /\ IsPrefix(started, ClaimedOrder) \/ IsPrefix(started, ClaimedOrderNoZone)
    /\ pc \in Phases => (started # << >> /\ started[Len(started)] = pc)
    /\ outcome = "returned" => started \in { ClaimedOrder, ClaimedOrderNoZone }

C3_Witness == outcome = "returned" /\ started = ClaimedOrder

\* C5: no creation call is issued for a resource name that already resolves
\* in the environment: every creation phase looks the resource up first.
C5_LookupBeforeCreate == dupCalls = {}

\* C6: whenever apply_all is not running, at most one network carries the
\* environment's name, and after a successful invocation exactly one does.
C6_OneNetwork ==
    pc = "idle" =>
        /\ Cardinality(NamedVpcs) <= 1
        /\ outcome = "returned" => Cardinality(NamedVpcs) = 1

(***************************************************************************)
(* Properties of instance_role (SpecPlace).                                *)
(***************************************************************************)
\* what the current invocation requested in subnet s
ReqCount(s) ==
    LET m == SelectSeq(Requests, LAMBDA b : b.subnet = s)
    IN IF m = << >> THEN 0 ELSE m[1].count

\* the share of desired_count of the i-th subnet of the ordering
Share(i) ==
    (role.count \div Len(subs)) + (IF i <= role.count % Len(subs) THEN 1 ELSE 0)

PreOccupancy == [ s \in SubnetNames |-> pre.roleIn[s] + pre.otherIn[s] ]

RECURSIVE SumSeq(_)
SumSeq(q) == IF q = << >> THEN 0 ELSE q[1] + SumSeq(Tail(q))

\* C7: with no instance of the role existing and k >= 1 eligible subnets,
\* the subnets are taken in ascending order of occupancy, the i-th is asked
\* for d div k instances plus one if i <= d mod k, and the counts sum to d.
C7_EvenSpread ==
    (ppc = "idle" /\ result \in { "created", "skipped" }
       /\ Total(pre.roleIn) = 0) =>
        LET k == Len(subs)
        IN /\ k >= 1
           /\ { subs[i] : i \in 1..k }
                = { role.subnets[i] : i \in 1..Len(role.subnets) } \cap SubnetNames
           /\ \A i, j \in 1..k :
                i < j => /\ subs[i] # subs[j]
                         /\ PreOccupancy[subs[i]] <= PreOccupancy[subs[j]]
           /\ \A i \in 1..k : ReqCount(subs[i]) = Share(i)
           /\ Len(Requests) = Cardinality({ i \in 1..k : Share(i) > 0 })
           /\ SumSeq([ i \in 1..Len(Requests) |-> Requests[i].count ]) = role.count

\* desired_count = 10 over three subnets of unequal occupancy: 4, 3, 3
C7_Witness ==
    /\ ppc = "idle"
    /\ result = "created"
    /\ Total(pre.roleIn) = 0
    /\ role.count = 10
    /\ subs = << "b", "a", "c" >>
    /\ PreOccupancy["c"] > PreOccupancy["b"]
    /\ ReqCount("b") = 4 /\ ReqCount("a") = 3 /\ ReqCount("c") = 3

\* C8: when the instances of a fixed role anywhere in the environment are at
\* least desired_count, instance_role requests no batch and the instances of
\* the environment stay as they were.
C8_EnoughMeansNothing ==
    (calls > 0 /\ ~role.autoscaling /\ Total(pre.roleIn) >= role.count) =>
        /\ Requests = << >>
        /\ ppc = "idle"
        /\ roleIn = pre.roleIn
        /\ otherIn = pre.otherIn
        /\ newIn = Zero

\* enough instances, some of them outside the subnets of the role
C8_Witness ==
    /\ result = "skipped"
    /\ role.count > 0
    /\ Total(pre.roleIn) >= role.count
    /\ \E s \in SubnetNames :
         /\ pre.roleIn[s] > 0
         /\ \A i \in 1..Len(subs) : subs[i] # s

\* C9: the count requested in a subnet is its share of desired_count minus
\* the instances of the role already in that subnet, and a subnet for which
\* this is zero gets no creation call.
C9_ShareMinusExisting ==
    (ppc \in { "loop", "create" } \/ (ppc = "idle" /\ result = "created")) =>
        LET passed == IF ppc = "loop" THEN idx - 1
                      ELSE IF ppc = "create" THEN idx
                      ELSE Len(subs)
            planned == [ i \in 1..passed |->
                           [ subnet |-> subs[i],
                             count |-> Share(i) - pre.roleIn[subs[i]] ] ]
            actual == [ i \in 1..Len(Requests) |->
                           [ subnet |-> Requests[i].subnet,
                             count |-> Requests[i].count ] ]
        IN actual = SelectSeq(planned, LAMBDA r : r.count # 0)

\* a subnet holding an instance of the role gets the rest of its share, and
\* another subnet is passed over
C9_Witness ==
    /\ ppc = "idle"
    /\ result = "created"
    /\ Len(Requests) < Len(subs)
    /\ \E i \in 1..Len(Requests) : pre.roleIn[Requests[i].subnet] > 0

\* C10: no two batches share a client token, every attempt of a batch
\* carries the token of that batch, and the provider launches for a batch
\* exactly the requested count however often the request is retried.
C10_TokenPerBatch ==
    /\ \A i, j \in 1..Len(batches) :
         i # j => batches[i].token # batches[j].token
    /\ \A i \in 1..Len(batches) :
         LET b == batches[i]
         IN /\ b.sent \subseteq { b.token }
            /\ b.count >= 1 => b.got <= b.count
            /\ b.returned => b.got = b.count

\* a batch whose first response was lost and whose retry returned, after a
\* batch for another subnet
C10_Witness ==
    \E i, j \in 1..Len(batches) :
        /\ i # j
        /\ batches[i].subnet # batches[j].subnet
        /\ batches[i].returned
        /\ batches[j].returned
        /\ batches[j].acted >= 2
        /\ batches[j].got = batches[j].count

(***************************************************************************)
(* Properties of the ensure phases (SpecEnsure).                           *)
(***************************************************************************)
\* C4: an ensure phase invoked again with the same configuration, against
\* the catalog its earlier invocation populated, issues no creation call.
C4_SecondRunCreatesNothing ==
    \A p \in EnsurePhases :
        \A i \in 1..Len(callsBy[p]) : i >= 2 => callsBy[p][i] = 0

\* every ensure phase has created something and has then been invoked again
C4_Witness ==
    \A p \in EnsurePhases :
        /\ Len(callsBy[p]) >= 2
        /\ callsBy[p][1] > 0

(***************************************************************************)
(* Properties of the retried methods and of the failure paths (Spec).      *)
(***************************************************************************)
\* C11: a decorated method whose attempt ended in a non-transient error (a
\* malformed request) is not called again: the retry wrapper never answers
\* such an exception with another attempt.
C11_NonTransientNotRetried == absorbed # "malformed"

\* the phase the current invocation started last
LastStarted == IF started = << >> THEN "none" ELSE started[Len(started)]

\* C15: once the creation call of instance_roles has failed with an error
\* that retrying does not cure, control is in the failure handler, or
\* apply_all has torn the environment down and delivered that error.
C15_CreateFailureTearsDown ==
    (LastStarted = "instance_roles" /\ absorbed = "malformed") =>
        \/ pc = "handler"
        \/ /\ outcome = "raised"
           /\ terminated
           /\ delivered = "instance_roles"

\* C16: when the configuration lacks `amis`, apply_all delivers that
\* configuration error, with no resource created and no teardown.
C16_ConfigErrorNoTeardown ==
    (outcome = "raised" /\ err = "amis") =>
        /\ delivered = "amis"
        /\ ~terminated
        /\ created = {}

\* C17: when the lock call at the end of finish_instance_roles raised, the
\* phase returned all the same and route_table_rules started; only a later
\* phase can bring the invocation into the handler, and if none does,
\* apply_all returns after the tags phase with no teardown.
C17_LockFailureOnlyLogged ==
    lockFailed =>
        /\ "route_table_rules" \in Range(started)
        /\ err \in { "none", "route_table_rules", "private_zone", "tags" }
        /\ (pc = "idle" /\ err = "none") =>
               /\ outcome = "returned"
               /\ "tags" \in Range(started)
               /\ ~terminated

C17_Witness ==
    /\ lockFailed
    /\ outcome = "returned"
    /\ LastStarted = "tags"

(***************************************************************************)
(* Properties of the barrier and of the waits (SpecBarrier).               *)
(***************************************************************************)
\* C12: a decorated wait does not go on for ever: whenever apply_all is in
\* the barrier, or in the phase that waits for the instance profile, it
\* later is somewhere else (the wait returned, or it gave up and failed the
\* build), also when the provider never delivers what is awaited.
C12_WaitGivesUp ==
    /\ (bpc = "wait_for_instance_roles_to_exist")
           ~> (bpc # "wait_for_instance_roles_to_exist")
    /\ (bpc = "autoscaling_instance_roles")
           ~> (bpc # "autoscaling_instance_roles")

FixedRoles == { r \in RoleNames : ~instance_role_cfg[r].autoscaling }

\* C13: when finish_instance_roles starts, the counts the barrier read on
\* its last attempt, and the counts that exist, are at least the desired
\* count for every fixed role.
C13_FinishAfterCounts ==
    bpc = "finish_instance_roles" =>
        \A r \in FixedRoles :
            /\ seen[r] >= instance_role_cfg[r].count
            /\ roles[r] >= instance_role_cfg[r].count

C13_Witness ==
    /\ bpc = "finish_instance_roles"
    /\ attempt_number > 1
    /\ \E r \in FixedRoles : instance_role_cfg[r].count = MaxDesired

\* C14: after a fixed role with a positive count was skipped for want of
\* eligible subnets, the build goes on and apply_all returns, given that the
\* provider delivers everything that was requested.
C14_SkippedRoleBuildCompletes ==
    (\E r \in skipped : instance_role_cfg[r].count > 0) ~> (bpc = "returned")

\* without such a role the build does return
NoSkippedRoleBuildCompletes ==
    (\A r \in SkippedRoles(instance_role_cfg) : instance_role_cfg[r].count = 0)
        ~> (bpc = "returned")

(***************************************************************************)
(* Properties of the tags phase (SpecTags).                                *)
(***************************************************************************)
\* the keys the claim calls reserved
ClaimedReserved == { "Name", "role", "vpc_name", "aws:autoscaling:groupName" }

\* the tags phase, for a set of reserved keys: no reserved key is ever given
\* to update_tags, so every resource keeps its value for it; and when the
\* phase has returned, every other key of the mapping is on every taggable
\* resource with the string of its value
TagsPhaseHonours(reserved) ==
    \A r \in DOMAIN TagsBefore :
        /\ \A k \in reserved :
               /\ k \notin applied[r]
               /\ resourceTags[r][k] = TagsBefore[r][k]
        /\ tpc = "done" =>
               \A k \in Present(tag_cfg) \ reserved :
                   /\ k \in applied[r]
                   /\ resourceTags[r][k] = Str(tag_cfg[k])

\* C18 (as stated): with Name, role, vpc_name and the autoscaling key as the
\* reserved keys, the tags phase never applies a reserved key and applies
\* every other key, as a string, to every taggable resource.
C18_ReservedAsClaimed == TagsPhaseHonours(ClaimedReserved)

\* C18 (amended): the same with the six keys of reserved_tags, which adds
\* key_pairs and private_hosted_zone_id to the reserved keys.
C18_ReservedTags == TagsPhaseHonours(reserved_tags)

C18_Witness ==
    /\ tpc = "done"
    /\ tag_cfg["Name"] # Absent
    /\ tag_cfg["owner"] = <<"int", "7">>
    /\ resourceTags["vpc"]["owner"] = <<"str", "7">>
    /\ resourceTags["vpc"]["Name"] = <<"str", "env">>

(***************************************************************************)
(* Properties of the subnets phase (SpecSubnets).                          *)
(***************************************************************************)
\* the block of the i-th subnet created
CreatedBlock(i) == ParseCidr(createdSubnets[i].CidrBlock)

\* C20: every subnet the phase creates has a block of the size configured
\* for that subnet, inside the network's block, and disjoint from the block
\* of every other subnet created; a phase that returns has created one
\* subnet for every configured name.
C20_SubnetBlocks ==
    /\ \A i \in DOMAIN createdSubnets :
        /\ CreatedBlock(i).prefix = subnet_cfg[createdSubnets[i].name].size
        /\ Within(CreatedBlock(i), ParseCidr(cidr_block))
        /\ \A j \in DOMAIN createdSubnets :
               i # j => Disjoint(CreatedBlock(i), CreatedBlock(j))
    /\ spc = "done" =>
        /\ Len(createdSubnets) = Cardinality(DOMAIN subnet_cfg)
        /\ { createdSubnets[i].name : i \in DOMAIN createdSubnets }
               = DOMAIN subnet_cfg

C20_Witness ==
    /\ spc = "done"
    /\ Len(createdSubnets) = 3
    /\ subnet_cfg[<<"net", 1>>].size > subnet_cfg[<<"net", 2>>].size
    /\ subnet_cfg[<<"net", 3>>].size = subnet_cfg[<<"net", 1>>].size
    /\ cidr_block[5] = 25

(***************************************************************************)
(* Properties of one whole build (SpecScenario).                           *)
(***************************************************************************)
\* the instances launched into the subnet the role calls n
InstancesIn(n) == { instance \in LaunchedInstances : SubnetOf(instance) = n }

\* C19: when apply_all returns for the configuration with the network
\* 10.0.0.0/16, two subnets of size 24 and one role of two instances that is
\* not autoscaled, run against an empty account, then one network exists,
\* two subnets exist whose blocks are /24, share no address and lie inside
\* the /16, two instances exist, one in each subnet, every instance carries
\* the tag Name = <env>-<role>-<id>, and lock_instances was called with
\* exactly those two instances.
C19_EndToEnd ==
    outcome = "returned" =>
        /\ Cardinality(LiveVpcs) = 1
        /\ Cardinality({ r \in created : r[2] = "build_vpc" }) = 1
        /\ Len(createdSubnets) = 2
        /\ \A i \in DOMAIN createdSubnets :
            /\ CreatedBlock(i).prefix = 24
            /\ Within(CreatedBlock(i), ParseCidr(<<10, 0, 0, 0, 16>>))
            /\ Addresses(CreatedBlock(i)) \subseteq
                   Addresses(ParseCidr(<<10, 0, 0, 0, 16>>))
        /\ Addresses(CreatedBlock(1)) \cap Addresses(CreatedBlock(2)) = {}
        /\ Cardinality(LaunchedInstances) = 2
        /\ \A n \in { "a", "b" } : Cardinality(InstancesIn(n)) = 1
        /\ \A instance \in LaunchedInstances :
            /\ instance \in DOMAIN nameTags
            /\ nameTags[instance] = <<vpc_name, role_name, instance>>
        /\ locking.called
        /\ locking.instances = LaunchedInstances

\* a build that returned although the response to a creation request was
\* lost and the request repeated, and although the lock call raised
C19_Witness ==
    /\ outcome = "returned"
    /\ \E i \in DOMAIN batches : batches[i].acted = 2
    /\ lockFailed
    /\ Cardinality(LaunchedInstances) = 2
    /\ locking.instances = LaunchedInstances

\* the addresses the configured subnets ask for, all together
ConfiguredCapacity ==
    SumOver([ n \in DOMAIN subnet_cfg |-> Capacity(subnet_cfg[n].size) ],
            DOMAIN subnet_cfg)

\* C21: when the configured subnets ask for more addresses than the network
\* block holds, the subnets phase ends in AllocationError and no
\* create_subnet call has been issued.
C21_OverCapacityFailsFirst ==
    (spc # "idle" /\ ConfiguredCapacity > Capacity(cidr_block[5])) =>
        /\ spc = "raised"
        /\ suberr = "AllocationError"
        /\ createdSubnets = << >>

\* the phase raised for two or more subnets that fit one by one
C21_Witness ==
    /\ spc = "raised"
    /\ suberr = "AllocationError"
    /\ createdSubnets = << >>
    /\ Cardinality(DOMAIN subnet_cfg) >= 2
    /\ \A n \in DOMAIN subnet_cfg : subnet_cfg[n].size >= cidr_block[5]
    /\ ConfiguredCapacity > Capacity(cidr_block[5])

\* the subnets whose block lies below that of sn_name whatever the order in
\* which the configuration is read: those of a larger block, and those of
\* the same size with a smaller name
Before(sn_name) ==
    { m \in DOMAIN subnet_cfg :
        \/ subnet_cfg[m].size < subnet_cfg[sn_name].size
        \/ /\ subnet_cfg[m].size = subnet_cfg[sn_name].size
           /\ NameKey[m] < NameKey[sn_name] }

\* the block of sn_name as a function of the network block and the
\* configuration alone
BlockByConfiguration(sn_name) ==
    [ addr |-> ParseCidr(cidr_block).addr +
               SumOver([ m \in DOMAIN subnet_cfg |-> Capacity(subnet_cfg[m].size) ],
                       Before(sn_name)),
      prefix |-> subnet_cfg[sn_name].size ]

\* C22: the block the subnets phase gives a subnet name is a function of the
\* network block and the subnet configuration alone: whatever the order in
\* which the configuration mapping hands out its entries, every run creates
\* the subnet of a name with the same block.
C22_Deterministic ==
    \A i \in DOMAIN createdSubnets :
        createdSubnets[i].CidrBlock =
            FormatCidr(BlockByConfiguration(createdSubnets[i].name))

\* a phase that returned after the mapping handed out, in an order that is
\* not the sorted one, entries of which two have the same size
C22_Witness ==
    /\ spc = "done"
    /\ Len(createdSubnets) = 3
    /\ handedOut # SortedNames(handedOut)
    /\ \E m, n \in DOMAIN subnet_cfg :
        /\ m # n
        /\ subnet_cfg[m].size = subnet_cfg[n].size
        /\ \E i, j \in DOMAIN handedOut :
            i < j /\ handedOut[i] = n /\ handedOut[j] = m /\ NameKey[m] < NameKey[n]

(***************************************************************************)
(* Properties of the two role phases (SpecBarrier).                        *)
(***************************************************************************)
\* both role phases of the build are over
RolePhasesOver ==
    bpc \in { "wait_for_instance_roles_to_exist", "finish_instance_roles",
              "returned" }

\* C23: no role has both instances requested by instance_role and a group
\* created by autoscaling_instance_role; once both phases are over, a role
\* whose autoscaling flag is set has its group and nothing from
\* instance_role, and a role whose flag is not set has no group and was
\* dealt with by instance_role (its desired count requested, or passed over
\* with 'no subnets found').
C23_OneVariantPerRole ==
    \A r \in RoleNames :
        /\ ~(byEngine[r] > 0 /\ r \in groups)
        /\ RolePhasesOver =>
            IF instance_role_cfg[r].autoscaling
            THEN r \in groups /\ byEngine[r] = 0 /\ r \notin skipped
            ELSE /\ r \notin groups
                 /\ (r \in skipped \/ byEngine[r] = instance_role_cfg[r].count)

\* a build with one role of each kind, both with instances to come
C23_Witness ==
    /\ bpc = "returned"
    /\ \E r, q \in RoleNames :
        /\ instance_role_cfg[r].autoscaling
        /\ instance_role_cfg[r].count > 0
        /\ r \in groups
        /\ ~instance_role_cfg[q].autoscaling
        /\ byEngine[q] > 0
        /\ q \notin groups

(***************************************************************************)
(* Properties of the load_balancers phase (SpecBalancers).                 *)
(***************************************************************************)
\* the calls of the phase that name lb_name, in the order they were made
CallsFor(lb_name) ==
    LET mine == SelectSeq(elbCalls, LAMBDA c : c[2] = lb_name)
    IN [ i \in 1..Len(mine) |-> mine[i][1] ]

\* the three calls a created load balancer gets, the binding by the group
\* of its role
CallsOfCreated(lb_name) ==
    << "create_load_balancer", "configure_health_check",
       IF elbCfg[lb_name] \in asgRoles
       THEN "attach_load_balancers"
       ELSE "register_role_with_load_balancer" >>

\* C24: a load balancer whose name existed when the phase began gets no
\* call at all; every other configured load balancer gets create, then the
\* health check, then exactly one binding call, which attaches it to the
\* group <env>-<role> when that group exists and registers the role's
\* instances with it otherwise; a phase that returned has made all three
\* calls for every load balancer it created.
C24_OneBindingAfterCreation ==
    \A lb_name \in DOMAIN elbCfg :
        IF lb_name \in existing_elb_names
        THEN CallsFor(lb_name) = << >>
        ELSE /\ IsPrefix(CallsFor(lb_name), CallsOfCreated(lb_name))
             /\ lbpc = "done" => CallsFor(lb_name) = CallsOfCreated(lb_name)

\* a phase that returned after it skipped one load balancer and attached
\* another to the group of its role
C24_Witness ==
    /\ lbpc = "done"
    /\ \E lb_name \in DOMAIN elbCfg : lb_name \in existing_elb_names
    /\ \E lb_name \in DOMAIN elbCfg :
        /\ Len(CallsFor(lb_name)) = 3
        /\ CallsFor(lb_name)[3] = "attach_load_balancers"

(***************************************************************************)
(* Properties of the security group rules (SpecRules).                     *)
(***************************************************************************)
\* the egress calls made on the group sg_name, in the order they were made
EgressCalls(sg_name) ==
    LET mine == SelectSeq(sgCalls,
                    LAMBDA c : c[2] = sg_name /\ c[1] # "authorize_ingress")
    IN [ i \in 1..Len(mine) |-> mine[i][1] ]

\* C25: while the rules are applied every configured group exists, so no
\* call is made on a missing group; a group with an outbound rule gets
\* revoke_egress of the default rule and then authorize_egress, in that
\* order and once each when the phase returns; a group with no outbound
\* rule gets neither call.
C25_RevokeBeforeCustomEgress ==
    /\ rpc # "AttributeError"
    /\ rpc \notin { "idle", "between" } => DOMAIN sgCfg \subseteq sgGroups
    /\ \A sg_name \in DOMAIN sgCfg :
        IF sgCfg[sg_name].outbound = << >>
        THEN EgressCalls(sg_name) = << >>
        ELSE /\ IsPrefix(EgressCalls(sg_name), << "revoke_egress", "authorize_egress" >>)
             /\ rpc = "done" =>
                    EgressCalls(sg_name) = << "revoke_egress", "authorize_egress" >>

\* a phase that returned for one group with an outbound rule and one with
\* inbound rules only
C25_Witness ==
    /\ rpc = "done"
    /\ \E g, h \in DOMAIN sgCfg :
        /\ sgCfg[g].outbound # << >>
        /\ sgCfg[h].outbound = << >>
        /\ sgCfg[h].inbound # << >>
        /\ Len(EgressCalls(g)) = 2
        /\ <<"authorize_ingress", h>> \in Range(sgCalls)

(***************************************************************************)
(* Properties of an instance-target route (SpecRoutes).                    *)
(***************************************************************************)
\* C26: for a route whose target role has an instance, the instance chosen
\* is one of the role; it lives in a zone of a subnet associated with the
\* route table whenever an instance of the role does; the source/destination
\* check is disabled on the chosen instance and on no other, and the route
\* to it is created only after that.
C26_RouteTargetChoice ==
    (targets # << >> /\ npc # "idle") =>
        /\ npc # "raised" => nat_instance \in DOMAIN targets
        /\ (npc # "raised" /\ \E i \in DOMAIN targets : targets[i] \in rtZones) =>
               targets[nat_instance] \in rtZones
        /\ unchecked \subseteq {nat_instance}
        /\ IsPrefix(routeCalls, << <<"source_dest_check_disable", nat_instance>>,
                                   <<"create_route", nat_instance>> >>)
        /\ npc = "done" => (unchecked = {nat_instance} /\ Len(routeCalls) = 2)

\* a route created to an instance in a zone of the route table, for a role
\* that also has an instance elsewhere
C26_Witness ==
    /\ npc = "done"
    /\ Len(targets) = 2
    /\ targets[nat_instance] \in rtZones
    /\ \E i \in DOMAIN targets : targets[i] \notin rtZones

(***************************************************************************)
(* Properties of finish_instance_roles (SpecFinish).                       *)
(***************************************************************************)
\* the calls made on the instance at position i, in the order they were made
CallsOn(i) ==
    LET mine == SelectSeq(finishCalls, LAMBDA c : c[2] = i)
    IN [ k \in 1..Len(mine) |-> mine[k][1] ]

\* the role's entry asks for an address / switches the check off
WantsEip(i) ==
    /\ running[i].role \in DOMAIN finishCfg
    /\ finishCfg[running[i].role].eip

ChecksOff(i) ==
    /\ running[i].role \in DOMAIN finishCfg
    /\ finishCfg[running[i].role].source_dest_check = "False"

\* the calls the claim lists for the instance at position i
ClaimedCalls(i) ==
    << "wait_until_running", "tag_instance_name", "tag_instance_volumes" >>
    \o (IF WantsEip(i) /\ running[i].eips = 0
        THEN << "allocate_and_associate_eip" >> ELSE << >>)
    \o (IF ChecksOff(i) THEN << "source_dest_check_disable" >> ELSE << >>)

\* C27: every instance gets, in this order, wait_until_running, the Name
\* tag, the tags of its volumes, an elastic IP only when its role requires
\* one and it holds none, and source_dest_check_disable only when its role
\* sets source_dest_check to False; the instances are dealt with one after
\* the other; lock_instances is called at most once, after every instance
\* got all its calls, with the instances that are not autoscaled, and once
\* when the method returns.
C27_FinishOrder ==
    /\ \A i \in DOMAIN running :
        /\ IsPrefix(CallsOn(i), ClaimedCalls(i))
        /\ i < finishPos => CallsOn(i) = ClaimedCalls(i)
        /\ i > finishPos => CallsOn(i) = << >>
    /\ \A k, l \in DOMAIN finishCalls :
        k < l => finishCalls[k][2] <= finishCalls[l][2]
    /\ Len(lockCalls) <= 1
    /\ lockCalls # << >> =>
        /\ \A i \in DOMAIN running : CallsOn(i) = ClaimedCalls(i)
        /\ lockCalls[1] = { i \in DOMAIN running : ~running[i].autoscaled }
    /\ qpc = "done" => Len(lockCalls) = 1

\* the method returned for an autoscaled instance and a fixed one whose
\* role requires an address it already holds and switches the check off
C27_Witness ==
    /\ qpc = "done"
    /\ \E i, j \in DOMAIN running :
        /\ running[i].autoscaled
        /\ ~running[j].autoscaled
        /\ WantsEip(j)
        /\ running[j].eips = 1
        /\ ChecksOff(j)
        /\ Len(CallsOn(j)) = 4
        /\ lockCalls = << {j} >>

(***************************************************************************)
(* Further properties of instance_role (SpecPlace).                        *)
(***************************************************************************)
\* C28: every batch instance_role requests from the provider has a count of
\* at least one (MinCount = MaxCount >= 1).
C28_CountAtLeastOne ==
    \A i \in DOMAIN batches : batches[i].count >= 1

\* C29: when instance_role has returned after its loop, for a role with an
\* eligible subnet and fewer instances than desired, the instances of the
\* role in the environment are desired_count in number, wherever the
\* instances found before were.
C29_TotalIsDesired ==
    (ppc = "idle" /\ result = "created" /\ calls = 1) =>
        Total(roleIn) = role.count

(***************************************************************************)
(* The barrier and the autoscaled roles (SpecBarrier).                     *)
(***************************************************************************)
AutoscaledRoles == { r \in RoleNames : instance_role_cfg[r].autoscaling }

\* C30: the barrier compares the count of every configured role, the
\* autoscaled ones included: once the build is past the barrier, the last
\* attempt of the barrier saw, for every role, at least as many instances
\* carrying the role tag as the role's count, and every autoscaled role has
\* that many instances launched by the provider for its group.
C30_BarrierCoversAutoscaled ==
    bpc \in { "finish_instance_roles", "returned" } =>
        /\ \A r \in RoleNames : seen[r] >= instance_role_cfg[r].count
        /\ \A r \in AutoscaledRoles :
            /\ r \in groups
            /\ byEngine[r] = 0
            /\ roles[r] >= instance_role_cfg[r].count

\* the build is past the barrier with an autoscaled role of two instances,
\* all launched by the provider, and an attempt of the barrier had failed
C30_Witness ==
    /\ bpc = "finish_instance_roles"
    /\ attempt_number > 1
    /\ \E r \in AutoscaledRoles :
        /\ instance_role_cfg[r].count = MaxDesired
        /\ roles[r] = MaxDesired
        /\ byEngine[r] = 0

====
